---- MODULE Spec2Model ----
(***************************************************************************)
(* A model of the Connect-Four 7x7 solver (src/src/*.rs).                  *)
(*                                                                         *)
(* A u64 bitboard is modelled as the set of its set bit positions          *)
(* (a subset of 0..63): & is \cap, | is \cup, >> and << move the           *)
(* positions, + is 64-bit addition with carries, and < is the numeric      *)
(* order.  u32 words (move orders, threat words) and i8 evaluations are    *)
(* plain integers.                                                         *)
(***************************************************************************)
EXTENDS Integers, Sequences, FiniteSets, TLC

(***************************************************************************)
(* Program constants                                                       *)
(***************************************************************************)
ROWS == 7
COLS == 7
BOARD_BITS == 56
COL_BITS == 8
WORD_BITS == 64
MAX_TOTAL_MOVES == 49
MAX_PLAYER_MOVES == 25
MAX_EVAL == 22
MIN_EVAL == -MAX_EVAL
DRAW == 0
CACHE_VALUE_SHIFT == 56
CACHE_SIZE == (2 ^ 19) + 1
BEGINNING_GAME_CACHE_DEPTH == 32
FOUR_BIT_MASK == 15
WORKER_THREAD_DEPTH == 2
CONNECTION_DIRECTIONS == <<1, 7, 8, 9>>

\* (3 << 0) | (2 << 4) | (4 << 8) | (5 << 12) | (1 << 16) | (6 << 20) | (0 << 24)
DEFAULT_MOVE_ORDER ==
    3 + 2 * (2 ^ 4) + 4 * (2 ^ 8) + 5 * (2 ^ 12) + 1 * (2 ^ 16) + 6 * (2 ^ 20) + 0 * (2 ^ 24)

(***************************************************************************)
(* u64 words as sets of bit positions                                      *)
(***************************************************************************)
Word == 0 .. (WORD_BITS - 1)

SetMax(S) == CHOOSE x \in S : \A y \in S : y <= x

Shr(S, d) == {b - d : b \in {x \in S : x >= d}}

Shl(S, d) == {b + d : b \in {x \in S : x + d < WORD_BITS}}

\* numeric a < b: the highest bit in which they differ is a bit of b
Lt(A, B) == \E b \in B \ A : \A a \in A \ B : a < b

U64Min(A, B) == IF Lt(B, A) THEN B ELSE A

\* the value of byte i of the word, 0..255
ByteOf(S, i) ==
    LET bit(k) == IF (COL_BITS * i + k) \in S THEN 2 ^ k ELSE 0
    IN  ((bit(0) + bit(1)) + (bit(2) + bit(3))) + ((bit(4) + bit(5)) + (bit(6) + bit(7)))

\* the bits of a byte value
BitsOfByte(v) == {k \in 0 .. 7 : (v \div (2 ^ k)) % 2 = 1}

\* A + B (mod 2^64), byte by byte: byte j sends a carry up when its sum
\* passes 255, and a byte whose sum is exactly 255 hands a carry on
U64Add(A, B) ==
    LET sum == [i \in 0 .. 7 |-> ByteOf(A, i) + ByteOf(B, i)]
        carry(i) == IF \E j \in 0 .. (i - 1) :
                            /\ sum[j] >= 256
                            /\ \A r \in (j + 1) .. (i - 1) : sum[r] = 255
                    THEN 1 ELSE 0
    IN  UNION {Shl(BitsOfByte((sum[i] + carry(i)) % 256), COL_BITS * i) : i \in 0 .. 7}

RECURSIVE Pow256Mod(_, _)
Pow256Mod(i, n) == IF i = 0 THEN 1 % n ELSE (Pow256Mod(i - 1, n) * 256) % n

\* word % n, for n < 2^20
U64Mod(S, n) ==
    LET term(i) == (ByteOf(S, i) * Pow256Mod(i, n)) % n
    IN  (((term(0) + term(1)) + (term(2) + term(3)))
         + ((term(4) + term(5)) + (term(6) + term(7)))) % n

(***************************************************************************)
(* Loops                                                                   *)
(***************************************************************************)
\* f(e), with e evaluated before f is applied
Then(e, f(_)) == CHOOSE r \in {f(x) : x \in {e}} : TRUE

RECURSIVE Loop(_, _, _, _)
\* for i in a..b { v = body(v, i) }: the value of v after the loop, the
\* range run as its first half and then its second half
Loop(body(_, _), v, a, b) ==
    IF a >= b THEN v
    ELSE IF b = a + 1 THEN body(v, a)
    ELSE Then(Loop(body, v, a, (a + b) \div 2),
              LAMBDA w : Loop(body, w, (a + b) \div 2, b))

(***************************************************************************)
(* u32 words as integers                                                   *)
(***************************************************************************)
\* x << k on a u32.  The words shifted here are threat counts, at most 49,
\* and k is at most 24, so no bit is ever shifted out of the word.
U32Shl(x, k) == x * (2 ^ k)

\* bit k of x
Bit(x, k) == (x \div (2 ^ k)) % 2

\* the word whose bit k is on(k), for the words below 2^31 that occur
FromBits(on(_)) ==
    LET bit(k) == IF on(k) THEN 2 ^ k ELSE 0
        nib(i) == (bit(4 * i) + bit(4 * i + 1)) + (bit(4 * i + 2) + bit(4 * i + 3))
    IN  ((nib(0) + nib(1)) + (nib(2) + nib(3)))
        + ((nib(4) + nib(5)) + (nib(6) + ((bit(28) + bit(29)) + bit(30))))

\* a | b
BitOr(a, b) ==
    IF a = 0 THEN b
    ELSE IF b = 0 THEN a
    ELSE FromBits(LAMBDA k : Bit(a, k) = 1 \/ Bit(b, k) = 1)

\* a & !b
BitAndNot(a, b) ==
    IF a = 0 \/ b = 0 THEN a
    ELSE FromBits(LAMBDA k : Bit(a, k) = 1 /\ Bit(b, k) = 0)

Max(a, b) == IF a >= b THEN a ELSE b
Min(a, b) == IF a <= b THEN a ELSE b

(***************************************************************************)
(* engine.rs / state.rs: masks and macros                                  *)
(***************************************************************************)
BOARD_MASK == 0 .. (BOARD_BITS - 1)
COLUMN_MASK == 0 .. (COL_BITS - 1)
\* 0b01111111 in each of the seven column slots
IS_LEGAL == {b \in BOARD_MASK : b % COL_BITS # COL_BITS - 1}

\* a variant that scores a loss one move early
min_eval_early(moves_made) == -(MAX_PLAYER_MOVES - (moves_made \div 2))

min_eval(moves_made) == -(MAX_PLAYER_MOVES - ((moves_made + 1) \div 2))
\* a variant that scores a win one move late
max_eval_late(moves_made) == MAX_PLAYER_MOVES - ((moves_made + 2) \div 2)

max_eval(moves_made) == MAX_PLAYER_MOVES - (moves_made \div 2)

update_pieces(pieces, next_move) == pieces \cup next_move
\* a variant that ORs the move into the height map instead of adding it
update_height_map_or(height_map, next_move) == height_map \cup next_move

update_height_map(height_map, next_move) == U64Add(height_map, next_move)

index(i) == i * 4
col_shift(col) == col * 8
get_col(cols, i) == (cols \div (2 ^ index(i))) % (FOUR_BIT_MASK + 1)
open_row(height_map, col) == height_map \cap Shl(COLUMN_MASK, col_shift(col))
cache_index(state) == U64Mod(state, CACHE_SIZE)

reflect_bitboard(state) ==
    UNION {Shl(Shr(state, i) \cap COLUMN_MASK, (BOARD_BITS - COL_BITS) - i) :
           i \in {COL_BITS * k : k \in 0 .. (BOARD_BITS \div COL_BITS) - 1}}

state_bitboard(curr_pieces, height_map) ==
    LET bitboard == curr_pieces \cup height_map
        reflected_bitboard == reflect_bitboard(bitboard)
    IN  U64Min(bitboard, reflected_bitboard)

\* connections &= connections >> d, three times, leaves bit b set exactly
\* when b, b + d, b + 2d and b + 3d are all set in pieces
\* a variant that is content with three in a row
Connected_short(pieces, b, d) ==
    /\ (b + d) \in pieces
    /\ (b + (2 * d)) \in pieces

Connected(pieces, b, d) ==
    /\ (b + d) \in pieces
    /\ (b + (2 * d)) \in pieces
    /\ (b + (3 * d)) \in pieces

is_win(pieces) ==
    \E k \in 1 .. Len(CONNECTION_DIRECTIONS) :
        \E b \in pieces : Connected(pieces, b, CONNECTION_DIRECTIONS[k])

(***************************************************************************)
(* threats.rs                                                              *)
(***************************************************************************)
get(arr, i) == (arr \div (2 ^ index(i))) % (FOUR_BIT_MASK + 1)
elements_mask(length) == (2 ^ (length * 4)) - 1
slice(arr, start, end) == (arr \div (2 ^ index(start))) % (elements_mask(end - start) + 1)
slice_clear(arr, start, end) ==
    BitAndNot(arr, elements_mask(end - start) * (2 ^ index(start)))
element_shift(arr, old, new) == get(arr, old) * (2 ^ index(new))
slice_shift(arr, start, end, new) == slice(arr, start, end) * (2 ^ index(new))

RECURSIVE InsertPos(_, _, _, _)
\* while j > 0 && curr_threats > get!(col_threats, get!(move_order, j - 1)) { j -= 1 }
\* a variant that also moves a column before the columns of equal count
InsertPos_equal(col_threats, move_order, curr_threats, j) ==
    IF j > 0 /\ curr_threats >= get(col_threats, get(move_order, j - 1))
    THEN InsertPos(col_threats, move_order, curr_threats, j - 1)
    ELSE j

InsertPos(col_threats, move_order, curr_threats, j) ==
    IF j > 0 /\ curr_threats > get(col_threats, get(move_order, j - 1))
    THEN InsertPos(col_threats, move_order, curr_threats, j - 1)
    ELSE j

\* the body of the for loop of sort_by_threats: iteration i
SortIter(col_threats, move_order, i) ==
    LET curr_col == get(move_order, i)
        curr_threats == get(col_threats, curr_col)
        j == InsertPos(col_threats, move_order, curr_threats, i)
    IN  BitOr(BitOr(slice_clear(move_order, j, i + 1),
                    element_shift(move_order, i, j)),
              slice_shift(move_order, j, i, j + 1))

sort_by_threats(col_threats) ==
    Loop(LAMBDA move_order, i : SortIter(col_threats, move_order, i),
         DEFAULT_MOVE_ORDER, 0, COLS)

RECURSIVE ThreatsFromCell(_, _, _)
\* while cell < limit { threat_count += is_win(pieces | cell); cell <<= 1 }
ThreatsFromCell(pieces, cell, limit) ==
    IF Lt(cell, limit)
    THEN (IF is_win(pieces \cup cell) THEN 1 ELSE 0)
         + ThreatsFromCell(pieces, Shl(cell, 1), limit)
    ELSE 0

\* a variant that keeps the count of the column only
ThreatsFromCol_alone(pieces, height_map, threat_count, col) ==
    ThreatsFromCell(pieces, height_map \cap Shl(COLUMN_MASK, col_shift(col)),
                    Shr(Shl(COLUMN_MASK, col_shift(col)), 1))

\* the body of the for loop of count_threats: column col
ThreatsFromCol(pieces, height_map, threat_count, col) ==
    LET col_mask == Shl(COLUMN_MASK, col_shift(col))
        limit == Shr(col_mask, 1)
    IN  threat_count + ThreatsFromCell(pieces, height_map \cap col_mask, limit)

count_threats(pieces, height_map) ==
    Loop(LAMBDA threat_count, col : ThreatsFromCol(pieces, height_map, threat_count, col),
         0, 0, COLS)

(***************************************************************************)
(* state.rs: State                                                         *)
(***************************************************************************)
MkState(c, o, h, m) ==
    [curr_pieces |-> c, opp_pieces |-> o, height_map |-> h, moves_made |-> m]

\* State::encode of the empty board
start_state ==
    MkState({}, {}, {col_shift(c) : c \in 0 .. (COLS - 1)}, 0)

to_bitboard(s) == state_bitboard(s.curr_pieces, s.height_map)

play_move(s, col) ==
    LET next_move == open_row(s.height_map, col)
    IN  MkState(s.opp_pieces,
                update_pieces(s.curr_pieces, next_move),
                update_height_map(s.height_map, next_move),
                s.moves_made + 1)

\* a variant that takes the side to move for the other side
FromColumn_swapped(bitboard, i) ==
    LET col_bits == ByteOf(bitboard, i)
        height == SetMax(BitsOfByte(col_bits))
        curr_col_mask == (2 ^ height) - 1
    IN  [opp |-> Shl(BitsOfByte(col_bits % (curr_col_mask + 1)), col_shift(i)),
         curr |-> Shl(BitsOfByte((curr_col_mask * 2) + 1 - col_bits), col_shift(i)),
         hm |-> {height + col_shift(i)},
         h |-> height]

\* one column of from_bitboard: the fields it contributes
FromColumn(bitboard, i) ==
    LET col_bits == ByteOf(bitboard, i)
        height == SetMax(BitsOfByte(col_bits))
        curr_col_mask == (2 ^ height) - 1
    IN  [curr |-> Shl(BitsOfByte(col_bits % (curr_col_mask + 1)), col_shift(i)),
         opp |-> Shl(BitsOfByte((curr_col_mask * 2) + 1 - col_bits), col_shift(i)),
         hm |-> {height + col_shift(i)},
         h |-> height]

RECURSIVE SumHeights(_, _)
SumHeights(bitboard, i) ==
    IF i >= COLS THEN 0 ELSE FromColumn(bitboard, i).h + SumHeights(bitboard, i + 1)

from_bitboard(bitboard) ==
    MkState(UNION {FromColumn(bitboard, i).curr : i \in 0 .. (COLS - 1)},
            UNION {FromColumn(bitboard, i).opp : i \in 0 .. (COLS - 1)},
            UNION {FromColumn(bitboard, i).hm : i \in 0 .. (COLS - 1)},
            SumHeights(bitboard, 0))

\* the (col, next_move) pairs next_moves(move_order, height_map) yields, in order
next_moves(move_order, height_map) ==
    LET all == [k \in 1 .. COLS |->
                  [col |-> get_col(move_order, k - 1),
                   next_move |-> open_row(height_map, get_col(move_order, k - 1))]]
        legal(m) == (m.next_move \cap IS_LEGAL) # {}
    IN  SelectSeq(all, legal)

\* State::next_states, as the sequence it pushes
next_states(s) ==
    LET mvs == next_moves(DEFAULT_MOVE_ORDER, s.height_map)
    IN  [k \in 1 .. Len(mvs) |->
            MkState(s.opp_pieces,
                    update_pieces(s.curr_pieces, mvs[k].next_move),
                    update_height_map(s.height_map, mvs[k].next_move),
                    s.moves_made + 1)]

(***************************************************************************)
(* engine.rs / caches.rs: the two-tier transposition cache                 *)
(*                                                                         *)
(* A shared early-game map is a function from fingerprints to bounds; a    *)
(* per-thread late-game table is the function from the written slots to    *)
(* their words (vec![0; CACHE_SIZE]: every other slot holds 0).            *)
(***************************************************************************)
\* (cache_entry >> CACHE_VALUE_SHIFT) as i8 - MAX_PLAYER_MOVES
get_cache_entry_eval(cache_entry) ==
    LET hi == ByteOf(cache_entry, CACHE_VALUE_SHIFT \div COL_BITS)
        as_i8 == IF hi >= 128 THEN hi - 256 ELSE hi
    IN  as_i8 - MAX_PLAYER_MOVES

\* state | (((bound + MAX_PLAYER_MOVES) as u64) << CACHE_VALUE_SHIFT)
create_cache_entry(state, bound) ==
    state \cup Shl(BitsOfByte((bound + MAX_PLAYER_MOVES) % 256), CACHE_VALUE_SHIFT)

EndGet(end_game_cache, idx) ==
    IF idx \in DOMAIN end_game_cache THEN end_game_cache[idx] ELSE {}

EndSet(end_game_cache, idx, word) ==
    [k \in (DOMAIN end_game_cache) \cup {idx} |->
        IF k = idx THEN word ELSE end_game_cache[k]]

\* a variant that trusts the slot: it does not compare the fingerprint
cache_lookup_any(state, moves_made, idx, beg_game_cache, end_game_cache, default_bound) ==
    IF moves_made <= BEGINNING_GAME_CACHE_DEPTH
    THEN IF state \in DOMAIN beg_game_cache THEN beg_game_cache[state] ELSE default_bound
    ELSE get_cache_entry_eval(EndGet(end_game_cache, idx))

cache_lookup(state, moves_made, idx, beg_game_cache, end_game_cache, default_bound) ==
    IF moves_made <= BEGINNING_GAME_CACHE_DEPTH
    THEN IF state \in DOMAIN beg_game_cache THEN beg_game_cache[state] ELSE default_bound
    ELSE LET cache_entry == EndGet(end_game_cache, idx)
         IN  IF (cache_entry \cap BOARD_MASK) = state
             THEN get_cache_entry_eval(cache_entry)
             ELSE default_bound

\* a variant that inserts the bound whatever the map holds
Upsert_insert(beg_game_cache, state, bound, is_max) ==
    [k \in (DOMAIN beg_game_cache) \cup {state} |->
        IF k # state THEN beg_game_cache[k] ELSE bound]

\* beg_game_cache.entry(state).and_modify(|e| *e = cmp(*e, bound)).or_insert(bound)
Upsert(beg_game_cache, state, bound, is_max) ==
    [k \in (DOMAIN beg_game_cache) \cup {state} |->
        IF k # state THEN beg_game_cache[k]
        ELSE IF state \in DOMAIN beg_game_cache
             THEN (IF is_max THEN Max(beg_game_cache[state], bound)
                             ELSE Min(beg_game_cache[state], bound))
             ELSE bound]

\* cache_put: the pair <<shared map, late table>> after the put
cache_put(bound, state, moves_made, idx, beg_game_cache, end_game_cache, is_max) ==
    IF moves_made > BEGINNING_GAME_CACHE_DEPTH
    THEN [beg |-> beg_game_cache,
          end |-> EndSet(end_game_cache, idx, create_cache_entry(state, bound))]
    ELSE [beg |-> Upsert(beg_game_cache, state, bound, is_max),
          end |-> end_game_cache]

(***************************************************************************)
(* engine.rs: evaluate_position as a machine                               *)
(*                                                                         *)
(* A thread's search is its call stack of evaluate_position frames.  A     *)
(* configuration cfg = [th, bl, bu] is a thread with the two shared maps.  *)
(* MicroStep runs the top frame up to its next label; the labels are       *)
(*   entry  the function's entry (the cancel check of a helper, the node   *)
(*          count, the terminal test, the window tightening)               *)
(*   lower  the lower-bound probe                                          *)
(*   upper  the upper-bound probe                                          *)
(*   enum   one iteration of the enumeration pass, and at its end the      *)
(*          forced-reply logic and the reordering                          *)
(*   pvs    the start of one iteration of the PVS loop (a recursive call)  *)
(*   ret    the continuation after a recursive call returned               *)
(* An Option<i8> is the set of its values: {} is None, {v} is Some(v).     *)
(***************************************************************************)
NewFrame(c, o, h, m, a, b) ==
    [pc |-> "entry", curr_pieces |-> c, opp_pieces |-> o, height_map |-> h,
     moves_made |-> m, alpha |-> a, beta |-> b, state |-> {}, cache_index |-> 0,
     threats |-> 0, forced_move_count |-> 0, forced_move |-> {},
     moves |-> <<>>, i |-> 1, moves_searched |-> 0, call |-> "none"]

NoBestMoves ==
    [pc |-> "off", s |-> start_state, best_moves |-> <<>>, max_eval |-> MIN_EVAL,
     moves |-> <<>>, i |-> 1, call |-> "none", eval |-> 0]

NewThread(stack) ==
    [stack |-> stack, ret |-> {}, lower |-> <<>>, upper |-> <<>>, pos |-> 0,
     bm |-> NoBestMoves, fin |-> FALSE, observed |-> FALSE, has_flag |-> FALSE]

Top(th) == th.stack[Len(th.stack)]

SetTop(th, f) == [th EXCEPT !.stack[Len(th.stack)] = f]

\* the top frame returns: Some(v) when ret = {v}, None when ret = {}
Return(cfg, ret) ==
    LET rest == SubSeq(cfg.th.stack, 1, Len(cfg.th.stack) - 1)
    IN  [cfg EXCEPT !.th.stack = rest,
                    !.th.ret = ret,
                    !.th.fin = (rest = <<>> /\ cfg.th.bm.pc = "off")]

\* the top frame, updated to f, calls evaluate_position on its move mv
Call(cfg, f, mv, a, b, call) ==
    LET child == NewFrame(f.opp_pieces,
                          update_pieces(f.curr_pieces, mv),
                          update_height_map(f.height_map, mv),
                          f.moves_made + 1, a, b)
        parent == [f EXCEPT !.pc = "ret", !.call = call]
    IN  [cfg EXCEPT !.th.stack = Append(SubSeq(@, 1, Len(@) - 1), parent) \o <<child>>]

\* a variant that reads the upper-bound caches for the lower bound
lower_bound_cache_lookup_upper(state, moves_made, idx, cfg) ==
    cache_lookup(state, moves_made, idx, cfg.bu, cfg.th.upper, MIN_EVAL)

lower_bound_cache_lookup(state, moves_made, idx, cfg) ==
    cache_lookup(state, moves_made, idx, cfg.bl, cfg.th.lower, MIN_EVAL)

upper_bound_cache_lookup(state, moves_made, idx, cfg) ==
    cache_lookup(state, moves_made, idx, cfg.bu, cfg.th.upper, MAX_EVAL)

\* a variant that stores a lower bound one above the bound found
cache_put_lower_bound_above(bound, state, moves_made, idx, cfg) ==
    LET r == cache_put(bound + 1, state, moves_made, idx, cfg.bl, cfg.th.lower, TRUE)
    IN  [cfg EXCEPT !.bl = r.beg, !.th.lower = r.end]

cache_put_lower_bound(bound, state, moves_made, idx, cfg) ==
    LET r == cache_put(bound, state, moves_made, idx, cfg.bl, cfg.th.lower, TRUE)
    IN  [cfg EXCEPT !.bl = r.beg, !.th.lower = r.end]

cache_put_upper_bound(bound, state, moves_made, idx, cfg) ==
    LET r == cache_put(bound, state, moves_made, idx, cfg.bu, cfg.th.upper, FALSE)
    IN  [cfg EXCEPT !.bu = r.beg, !.th.upper = r.end]

\* lines 292-309: node count, terminal test, window tightening, fingerprint
StepEntry(cfg) ==
    LET f == Top(cfg.th)
        counted == [cfg EXCEPT !.th.pos = @ + 1]
        state == state_bitboard(f.curr_pieces, f.height_map)
    IN  IF f.moves_made = MAX_TOTAL_MOVES
        THEN Return(counted, {DRAW})
        ELSE [counted EXCEPT !.th.stack[Len(cfg.th.stack)] =
                [f EXCEPT !.pc = "lower",
                          !.alpha = Max(f.alpha, min_eval(f.moves_made)),
                          !.beta = Min(f.beta, max_eval(f.moves_made)),
                          !.state = state,
                          !.cache_index = cache_index(state)]]

\* lines 311-314
StepLower(cfg) ==
    LET f == Top(cfg.th)
        alpha == Max(f.alpha,
                     lower_bound_cache_lookup(f.state, f.moves_made, f.cache_index, cfg))
    IN  IF alpha >= f.beta
        THEN Return(cfg, {alpha})
        ELSE [cfg EXCEPT !.th = SetTop(cfg.th, [f EXCEPT !.pc = "upper", !.alpha = alpha])]

\* lines 316-325
StepUpper(cfg) ==
    LET f == Top(cfg.th)
        beta == Min(f.beta,
                    upper_bound_cache_lookup(f.state, f.moves_made, f.cache_index, cfg))
    IN  IF f.alpha >= beta
        THEN Return(cfg, {f.alpha})
        ELSE [cfg EXCEPT !.th = SetTop(cfg.th,
                [f EXCEPT !.pc = "enum", !.beta = beta,
                          !.threats = 0, !.forced_move_count = 0, !.forced_move = {},
                          !.moves = next_moves(DEFAULT_MOVE_ORDER, f.height_map),
                          !.i = 1])]

\* lines 375-416: the recursive call of iteration f.i of the PVS loop, or,
\* the loop being over, lines 429-430
StepPvs(cfg) ==
    LET f == Top(cfg.th)
    IN  IF f.i <= Len(f.moves)
        THEN IF f.moves_searched = 0
             THEN Call(cfg, f, f.moves[f.i].next_move, -f.beta, -f.alpha, "first")
             ELSE Call(cfg, f, f.moves[f.i].next_move, -f.alpha - 1, -f.alpha, "null")
        ELSE Return(cache_put_upper_bound(f.alpha, f.state, f.moves_made,
                                          f.cache_index, cfg),
                    {f.alpha})

\* lines 325-373: iteration f.i of the enumeration pass; after the last one,
\* the double-threat return, the forced reply or the reordering
StepEnum(cfg) ==
    LET f == Top(cfg.th)
    IN  IF f.i <= Len(f.moves)
        THEN LET col == f.moves[f.i].col
                 next_move == f.moves[f.i].next_move
                 updated_pieces == update_pieces(f.curr_pieces, next_move)
                 forced == is_win(update_pieces(f.opp_pieces, next_move))
                 updated_height_map == update_height_map(f.height_map, next_move)
                 next_state == state_bitboard(f.opp_pieces, updated_height_map)
                 alpha == Max(f.alpha,
                              -upper_bound_cache_lookup(next_state, f.moves_made + 1,
                                                        cache_index(next_state), cfg))
             IN  IF is_win(updated_pieces)
                 THEN Return(cfg, {max_eval(f.moves_made)})
                 ELSE IF alpha >= f.beta
                 THEN Return(cfg, {alpha})
                 ELSE [cfg EXCEPT !.th = SetTop(cfg.th,
                        [f EXCEPT
                           !.forced_move_count = IF forced THEN @ + 1 ELSE @,
                           !.forced_move = IF forced THEN next_move ELSE @,
                           !.alpha = alpha,
                           !.threats =
                               BitOr(@, U32Shl(count_threats(updated_pieces,
                                                             updated_height_map),
                                               index(col))),
                           !.i = @ + 1])]
        ELSE IF f.forced_move_count > 1
        THEN Return(cfg, {min_eval(f.moves_made)})
        ELSE IF f.forced_move_count = 1
        THEN Call(cfg, f, f.forced_move, -f.beta, -f.alpha, "forced")
        ELSE StepPvs([cfg EXCEPT !.th = SetTop(cfg.th,
                [f EXCEPT !.pc = "pvs",
                          !.moves = next_moves(sort_by_threats(f.threats), f.height_map),
                          !.i = 1,
                          !.moves_searched = 0])])

\* lines 418-427, then the next iteration of the PVS loop
AfterEval(cfg, f, eval) ==
    LET alpha == Max(f.alpha, eval)
    IN  IF alpha >= f.beta
        THEN Return(cache_put_lower_bound(alpha, f.state, f.moves_made,
                                          f.cache_index, cfg),
                    {alpha})
        ELSE StepPvs([cfg EXCEPT !.th = SetTop(cfg.th,
                [f EXCEPT !.pc = "pvs", !.alpha = alpha,
                          !.moves_searched = @ + 1, !.i = @ + 1])])

\* the continuation of the frame whose recursive call returned cfg.th.ret
StepRet(cfg) ==
    LET f == Top(cfg.th)
        r == CHOOSE v \in cfg.th.ret : TRUE
    IN  IF cfg.th.ret = {}
        THEN Return(cfg, {})
        ELSE CASE f.call = "forced" -> Return(cfg, {-r})
               [] f.call = "first" -> AfterEval(cfg, f, -r)
               [] f.call = "null" ->
                    IF (-r) > f.alpha /\ (-r) < f.beta
                    THEN Call(cfg, f, f.moves[f.i].next_move, -f.beta, -f.alpha, "full")
                    ELSE AfterEval(cfg, f, -r)
               [] f.call = "full" -> AfterEval(cfg, f, -r)

(***************************************************************************)
(* engine.rs: best_moves, the root driver, as the continuation that runs   *)
(* when the thread's call stack is empty                                   *)
(***************************************************************************)
\* lines 441-450: iteration k of the first loop, which collects the
\* winning columns and the threats
BmScan(s, moves, acc, k) ==
    LET col == moves[k].col
        next_move == moves[k].next_move
        updated_pieces == update_pieces(s.curr_pieces, next_move)
        updated_height_map == update_height_map(s.height_map, next_move)
    IN  [best_moves |-> IF is_win(updated_pieces)
                        THEN Append(acc.best_moves, col)
                        ELSE acc.best_moves,
         threats |-> BitOr(acc.threats,
                           U32Shl(count_threats(updated_pieces, updated_height_map),
                                  index(col)))]

\* the recursive call of best_moves on its move mv, with window (a, b)
BmCall(cfg, bm, a, b, call) ==
    LET mv == bm.moves[bm.i].next_move
    IN  [cfg EXCEPT !.th.bm = [bm EXCEPT !.pc = "wait", !.call = call],
                    !.th.stack = <<NewFrame(bm.s.opp_pieces,
                                            update_pieces(bm.s.curr_pieces, mv),
                                            update_height_map(bm.s.height_map, mv),
                                            bm.s.moves_made + 1, a, b)>>]

\* lines 459-469: the null-window probe of iteration bm.i, or line 492
BmProbe(cfg, bm) ==
    IF bm.i <= Len(bm.moves)
    THEN BmCall(cfg, bm, -bm.max_eval - 1, -bm.max_eval + 1, "probe")
    ELSE [cfg EXCEPT !.th.bm = [bm EXCEPT !.pc = "done"], !.th.fin = TRUE]

\* lines 438-457
StepBmStart(cfg) ==
    LET bm == cfg.th.bm
        moves == next_moves(DEFAULT_MOVE_ORDER, bm.s.height_map)
        scan == Loop(LAMBDA acc, k : BmScan(bm.s, moves, acc, k),
                     [best_moves |-> <<>>, threats |-> 0], 1, Len(moves) + 1)
    IN  IF Len(scan.best_moves) > 0
        THEN [cfg EXCEPT !.th.bm = [bm EXCEPT !.pc = "done", !.call = "win",
                                              !.best_moves = scan.best_moves],
                         !.th.fin = TRUE]
        ELSE BmProbe(cfg, [bm EXCEPT
                            !.moves = next_moves(sort_by_threats(scan.threats),
                                                 bm.s.height_map),
                            !.i = 1,
                            !.max_eval = MIN_EVAL])

\* a variant that keeps only the first of the columns of equal value
StepBmRet_first(cfg) ==
    LET bm == cfg.th.bm
        eval == -(CHOOSE v \in cfg.th.ret : TRUE)
        col == bm.moves[bm.i].col
    IN  IF bm.call = "probe"
        THEN IF eval > bm.max_eval
             THEN BmCall(cfg, bm, MIN_EVAL, -eval, "re")
             ELSE BmProbe(cfg, [bm EXCEPT !.i = @ + 1])
        ELSE BmProbe(cfg, [bm EXCEPT !.best_moves = <<col>>, !.max_eval = eval,
                                     !.i = @ + 1])

\* lines 471-490: after the probe (call = "probe") or the re-search (call = "re")
StepBmRet(cfg) ==
    LET bm == cfg.th.bm
        eval == -(CHOOSE v \in cfg.th.ret : TRUE)
        col == bm.moves[bm.i].col
    IN  IF bm.call = "probe"
        THEN IF eval > bm.max_eval
             THEN BmCall(cfg, bm, MIN_EVAL, -eval, "re")
             ELSE IF eval = bm.max_eval
             THEN BmProbe(cfg, [bm EXCEPT !.best_moves = Append(@, col), !.i = @ + 1])
             ELSE BmProbe(cfg, [bm EXCEPT !.i = @ + 1])
        ELSE BmProbe(cfg, [bm EXCEPT !.best_moves = <<col>>, !.max_eval = eval,
                                     !.i = @ + 1])

(***************************************************************************)
(* evaluate_position_rec: evaluate_position with the cooperative cancel    *)
(* flag.  The flag is read once on entry; a set flag, and a None from a    *)
(* recursive call, return None.                                            *)
(***************************************************************************)
\* a variant that does not look at the flag
StepEntryRec_unchecked(cfg, cancel) == StepEntry(cfg)

StepEntryRec(cfg, cancel) ==
    IF cancel
    THEN Return([cfg EXCEPT !.th.observed = TRUE], {})
    ELSE StepEntry(cfg)

StepRetRec(cfg) ==
    IF cfg.th.ret = {} THEN Return(cfg, {}) ELSE StepRet(cfg)

\* the thread's next step, up to the next label; cancel is the value the
\* thread reads from its flag
MicroStep(cfg, cancel) ==
    IF cfg.th.stack = <<>>
    THEN CASE cfg.th.bm.pc = "start" -> StepBmStart(cfg)
           [] cfg.th.bm.pc = "wait" -> StepBmRet(cfg)
           [] OTHER -> cfg
    ELSE CASE Top(cfg.th).pc = "entry" -> StepEntryRec(cfg, cancel)
           [] Top(cfg.th).pc = "lower" -> StepLower(cfg)
           [] Top(cfg.th).pc = "upper" -> StepUpper(cfg)
           [] Top(cfg.th).pc = "enum" -> StepEnum(cfg)
           [] Top(cfg.th).pc = "ret" -> StepRetRec(cfg)

\* The next step of the thread starts an atomic step of its own: it reads
\* the thread's terminate flag (a function entry of a helper), or it reads or
\* writes a shared early-game map.  Every other step touches only what the
\* thread owns and runs with the step before it.
StopBefore(th) ==
    \/ th.fin
    \/ /\ th.stack # <<>>
       /\ LET f == Top(th)
          IN  \/ f.pc = "entry" /\ th.has_flag
              \/ /\ f.pc \in {"lower", "upper", "ret"}
                 /\ f.moves_made <= BEGINNING_GAME_CACHE_DEPTH
              \/ /\ f.pc = "enum"
                 /\ f.i <= Len(f.moves)
                 /\ f.moves_made + 1 <= BEGINNING_GAME_CACHE_DEPTH

\* at most this many steps are run as one atomic step
MaxChunk == 24

\* the thread's next step if it runs with the step before it
LocalStep(cfg) == IF StopBefore(cfg.th) THEN cfg ELSE MicroStep(cfg, FALSE)

\* one atomic step of a thread
ThreadRun(cfg, cancel) ==
    Loop(LAMBDA c, k : LocalStep(c), MicroStep(cfg, cancel), 0, MaxChunk)

(***************************************************************************)
(* state.rs: generate_states                                               *)
(***************************************************************************)
RECURSIVE generate_states_rec(_, _, _)
RECURSIVE GenerateEach(_, _, _, _)

\* a variant that goes on below a won position
generate_states_rec_past_win(self, depth, states) ==
    LET bitboard == to_bitboard(self)
    IN  IF bitboard \in states THEN states
        ELSE IF depth = 0 THEN states \cup {bitboard}
        ELSE GenerateEach(next_states(self), 1, depth - 1, states \cup {bitboard})

generate_states_rec(self, depth, states) ==
    LET bitboard == to_bitboard(self)
    IN  IF bitboard \in states THEN states
        ELSE IF depth = 0 \/ is_win(self.opp_pieces) THEN states \cup {bitboard}
        ELSE GenerateEach(next_states(self), 1, depth - 1, states \cup {bitboard})

\* the loop over next_states, from its k-th element on
GenerateEach(nexts, k, depth, states) ==
    IF k > Len(nexts) THEN states
    ELSE GenerateEach(nexts, k + 1, depth, generate_states_rec(nexts[k], depth, states))

generate_states(self, depth) == generate_states_rec(self, depth, {})

(***************************************************************************)
(* worker_threads.rs: the helper pool                                      *)
(***************************************************************************)
\* What (0..num_workers).zip(states) can yield: the hash set iterates in an
\* order the program does not control, so any num_workers distinct elements
\* in any order (all of them when there are fewer).
RECURSIVE ZipPrefixes(_, _)
ZipPrefixes(num_workers, states) ==
    IF num_workers = 0 \/ states = {} THEN {<<>>}
    ELSE UNION {{<<x>> \o rest : rest \in ZipPrefixes(num_workers - 1, states \ {x})}
                : x \in states}

RECURSIVE SpawnFrom(_, _, _)
\* the loop of spawn_evaluate_position_worker_threads from the k-th pair on:
\* the positions the helpers are started on, in handler order
SpawnFrom(taken, k, game_state) ==
    IF k > Len(taken) THEN <<>>
    ELSE LET state == from_bitboard(taken[k])
         IN  IF state = game_state
             THEN SpawnFrom(taken, k + 1, game_state)
             ELSE <<state>> \o SpawnFrom(taken, k + 1, game_state)

spawn_evaluate_position_worker_threads(taken, game_state) ==
    SpawnFrom(taken, 1, game_state)

\* evaluate_position_worker_thread: the helper's full-window search of state
evaluate_position_worker_thread(state) ==
    [NewThread(<<NewFrame(state.curr_pieces, state.opp_pieces, state.height_map,
                          state.moves_made, MIN_EVAL, MAX_EVAL)>>)
        EXCEPT !.has_flag = TRUE]

\* WorkerThreadHandler::join: the thread's result, Ok(pos) or the
\* EvaluatePositionError that ok_or_else makes of a None
join(th) == IF th.ret = {} THEN "Err" ELSE "Ok"

(***************************************************************************)
(* The reference value: negamax under distance scoring, by definition,     *)
(* with no pruning and no cache.  Below the horizon ply a position is not  *)
(* expanded and only the range its value can lie in is known, so the       *)
(* reference is an interval [lo, hi] that contains the value; lo = hi      *)
(* where every line is decided before the horizon.                         *)
(***************************************************************************)
\* the position after the move
Child(s, next_move) ==
    MkState(s.opp_pieces, update_pieces(s.curr_pieces, next_move),
            update_height_map(s.height_map, next_move), s.moves_made + 1)

\* the legal moves of the side to move, as the bits they set
Moves(s) == {open_row(s.height_map, col) \cap IS_LEGAL : col \in 0 .. (COLS - 1)} \ {{}}

\* the negamax of the children's intervals
Negamax(kids) ==
    [lo |-> CHOOSE v \in -MAX_PLAYER_MOVES .. MAX_PLAYER_MOVES :
                /\ \E c \in kids : v = -c.hi
                /\ \A c \in kids : v >= -c.hi,
     hi |-> CHOOSE v \in -MAX_PLAYER_MOVES .. MAX_PLAYER_MOVES :
                /\ \E c \in kids : v = -c.lo
                /\ \A c \in kids : v >= -c.lo]

RECURSIVE Ref(_, _)
Ref(s, horizon) ==
    CASE s.moves_made = MAX_TOTAL_MOVES -> [lo |-> DRAW, hi |-> DRAW]
      [] s.moves_made < MAX_TOTAL_MOVES
         /\ \E mv \in Moves(s) : is_win(update_pieces(s.curr_pieces, mv)) ->
            [lo |-> MAX_PLAYER_MOVES - (s.moves_made \div 2),
             hi |-> MAX_PLAYER_MOVES - (s.moves_made \div 2)]
      [] OTHER ->
            IF s.moves_made >= horizon
            THEN [lo |-> -(MAX_PLAYER_MOVES - ((s.moves_made + 1) \div 2)),
                  hi |-> MAX_PLAYER_MOVES - ((s.moves_made + 2) \div 2)]
            ELSE Negamax({Ref(kid, horizon) : kid \in {Child(s, mv) : mv \in Moves(s)}})

(***************************************************************************)
(* The driver: a game is played to a root position by play_move, the       *)
(* helpers are spawned, the main thread searches while the helpers run,    *)
(* the helpers are told to terminate and are joined.                       *)
(***************************************************************************)
MaxWorkers == 1
MaxHelperSteps == 16
MaxRounds == 2
RefDepth == 9

\* the games played: columns in the order played, no four-in-a-row on the way
Lines ==
    << <<2,5,3,1,4,5,5,3,0,5,0,3,5,3,5,2,2,5,3,2,2,2,2,0,0,3,0,3,0,0>>,
       <<0,3,6,0,0,5,2,4,2,6,0,6,2,4,0,2,2,2,2,0,4,0,4,6,4,4,6,4,6,6>>,
       <<2,1,4,0,6,4,0,3,4,0,4,0,4,4,2,0,2,4,6,2,6,6,0,0,6,6,2,2,6,2>>,
       <<0,6,5,6,0,5,0,5,1,5,5,6,1,4,3,4,5,2,5,0,4,0,4,2,4,4,1,2,2,2,2,1,
         2,1,6,1,6,6,1,6>>,
       <<0,6,3,2,2,3,0,2,2,2,3,3,6,1,4,3,1,3,0,2,3,1,4,4,6,5,2,0,4,1,4,6,
         6,6,0,0,0,1,1,1>>,
       <<4,0,2,0,4,6,2,3,5,3,4,0,5,4,3,6,3,6,5,5,4,3,0,4,5,5,0,2,0,2,3,2,
         6,3,6,1,2,0,1,6,5,6,4,2,1,1,1,1,1>>,
       <<1,3,2,5,0,4,5,5,4,5,2,3,5,4,3,3,0,3,3,5,2,5,6,0,1,2,1,1,2,2,0,2,
         6,6,0,6,1,0,0,1,1>> >>

VARIABLES
    line,        \* the game played, an index of Lines
    ply,         \* how many of its moves have been played
    game,        \* the position reached: the State the driver is given
    dpc,         \* the driver's position: "play", "search", "done"
    mode,        \* what the driver runs: "evaluate" or "best_moves"
    num_workers, \* the helper count asked for
    round,       \* how many searches of the root have been started
    main,        \* the main thread
    helpers,     \* the helper threads, in handler order
    flags,       \* the helpers' terminate flags
    steps,       \* how many steps each helper took before its flag was set
    joined,      \* the results of the joins: "pending", "Ok", "Err"
    beg_game_lower_bound_cache,  \* the shared early-game maps
    beg_game_upper_bound_cache,
    results,     \* what the completed searches returned, in order
    truth,       \* the reference value of the root
    \* plays on a board (state.rs)
    board,       \* the State played on
    last,        \* the last play: its kind, column and whether the column had room
    plays,       \* how many plays were made
    \* puts into the caches
    put_caches,  \* per thread, its view of the caches: the shared maps and its tables
    shared,      \* the two shared early-game maps
    put_log,     \* what was put so far
    \* the database generator's worker pool
    states,      \* the shared queue of positions
    positions_lock,  \* the worker that holds the queue's lock, 0 when it is free
    db_pc,       \* each worker's position in its loop
    state_opt,   \* what each worker's pop returned
    popped,      \* the positions popped, with the worker that popped each, in order
    db_lower,    \* the shared lower-bound map of the pool
    \* calls of single functions
    arg,         \* the argument of the last call
    out,         \* what the call returned
    calls        \* how many calls were made

searchVars == <<line, ply, game, dpc, mode, num_workers, round, main, helpers, flags,
                steps, joined, beg_game_lower_bound_cache, beg_game_upper_bound_cache,
                results, truth>>
playVars == <<board, last, plays>>
putVars == <<put_caches, shared, put_log>>
dbVars == <<states, positions_lock, db_pc, state_opt, popped, db_lower>>

fnVars == <<arg, out, calls>>

vars == <<searchVars, playVars, putVars, dbVars, fnVars>>

RootFrame(s) ==
    NewFrame(s.curr_pieces, s.opp_pieces, s.height_map, s.moves_made, MIN_EVAL, MAX_EVAL)

Cfg(th) == [th |-> th, bl |-> beg_game_lower_bound_cache,
            bu |-> beg_game_upper_bound_cache]

\* the position after the first n moves of game l
PositionAfter(l, n) ==
    Loop(LAMBDA s, k : play_move(s, Lines[l][k]), start_state, 1, n + 1)

\* nothing is played on the board
PlayIdle ==
    /\ board = start_state
    /\ last = [kind |-> "none", col |-> 0, legal |-> TRUE]
    /\ plays = 0

\* nothing is put
PutIdle ==
    /\ put_caches = <<>>
    /\ shared = [lower |-> <<>>, upper |-> <<>>]
    /\ put_log = [n |-> 0, lower |-> {}, upper |-> {}, last |-> <<>>]

\* no worker pool
DbIdle ==
    /\ states = <<>>
    /\ positions_lock = 0
    /\ db_pc = <<>>
    /\ state_opt = <<>>
    /\ popped = <<>>
    /\ db_lower = <<>>

\* no function called
FnIdle ==
    /\ arg = <<>>
    /\ out = <<>>
    /\ calls = 0

\* no search
SearchIdle ==
    /\ line = 1
    /\ ply = 0
    /\ game = start_state
    /\ dpc = "off"
    /\ mode = "none"
    /\ num_workers = 0
    /\ round = 0
    /\ main = NewThread(<<>>)
    /\ helpers = <<>>
    /\ flags = <<>>
    /\ steps = <<>>
    /\ joined = <<>>
    /\ beg_game_lower_bound_cache = <<>>
    /\ beg_game_upper_bound_cache = <<>>
    /\ results = <<>>
    /\ truth = [lo |-> MIN_EVAL, hi |-> MAX_EVAL]

Init ==
    /\ PlayIdle /\ PutIdle /\ DbIdle /\ FnIdle
    /\ line \in DOMAIN Lines
    /\ ply = 0
    /\ game = start_state
    /\ dpc = "play"
    /\ mode = "none"
    /\ num_workers = 0
    /\ round = 0
    /\ main = NewThread(<<>>)
    /\ helpers = <<>>
    /\ flags = <<>>
    /\ steps = <<>>
    /\ joined = <<>>
    /\ beg_game_lower_bound_cache = <<>>
    /\ beg_game_upper_bound_cache = <<>>
    /\ results = <<>>
    /\ truth = [lo |-> MIN_EVAL, hi |-> MAX_EVAL]

\* the next move of the game is played
PlayStep ==
    /\ dpc = "play"
    /\ ply < Len(Lines[line])
    /\ game' = play_move(game, Lines[line][ply + 1])
    /\ ply' = ply + 1
    /\ UNCHANGED <<line, dpc, mode, num_workers, round, main, helpers, flags, steps,
                   joined, beg_game_lower_bound_cache, beg_game_upper_bound_cache,
                   results, truth>>
    /\ UNCHANGED <<playVars, putVars, dbVars, fnVars>>

\* the driver spawns n helpers and starts evaluate on the root
StartEvaluate ==
    /\ dpc = "play"
    /\ ply = Len(Lines[line])
    /\ \E n \in 0 .. MaxWorkers :
       \E taken \in ZipPrefixes(n, generate_states(game, WORKER_THREAD_DEPTH)) :
       \E roots \in {spawn_evaluate_position_worker_threads(taken, game)} :
              /\ num_workers' = n
              /\ helpers' = [t \in DOMAIN roots |->
                               evaluate_position_worker_thread(roots[t])]
              /\ flags' = [t \in DOMAIN roots |-> FALSE]
              /\ steps' = [t \in DOMAIN roots |-> 0]
              /\ joined' = [t \in DOMAIN roots |-> "pending"]
    /\ main' = NewThread(<<RootFrame(game)>>)
    /\ mode' = "evaluate"
    /\ dpc' = "search"
    /\ round' = 1
    /\ truth' = Ref(game, game.moves_made + RefDepth)
    /\ UNCHANGED <<line, ply, game, beg_game_lower_bound_cache,
                   beg_game_upper_bound_cache, results>>
    /\ UNCHANGED <<playVars, putVars, dbVars, fnVars>>

\* the driver starts best_moves on the root
StartBestMoves ==
    /\ dpc = "play"
    /\ ply = Len(Lines[line])
    /\ ply < MAX_TOTAL_MOVES
    /\ main' = [NewThread(<<>>) EXCEPT !.bm = [NoBestMoves EXCEPT !.pc = "start",
                                                               !.s = game]]
    /\ mode' = "best_moves"
    /\ dpc' = "search"
    /\ round' = 1
    /\ truth' = Ref(game, game.moves_made + RefDepth)
    /\ UNCHANGED <<line, ply, game, num_workers, helpers, flags, steps, joined,
                   beg_game_lower_bound_cache, beg_game_upper_bound_cache, results>>
    /\ UNCHANGED <<playVars, putVars, dbVars, fnVars>>

\* a step of the main thread's search
MainStep ==
    /\ dpc = "search"
    /\ ~main.fin
    /\ \E cfg \in {ThreadRun(Cfg(main), FALSE)} :
           /\ main' = cfg.th
           /\ beg_game_lower_bound_cache' = cfg.bl
           /\ beg_game_upper_bound_cache' = cfg.bu
    /\ UNCHANGED <<line, ply, game, dpc, mode, num_workers, round, helpers, flags,
                   steps, joined, results, truth>>
    /\ UNCHANGED <<playVars, putVars, dbVars, fnVars>>

\* a step of helper t's search; on a function entry it reads its flag
HelperStep(t) ==
    /\ dpc = "search"
    /\ t \in DOMAIN helpers
    /\ ~helpers[t].fin
    /\ flags[t] \/ steps[t] < MaxHelperSteps
    /\ \E cfg \in {ThreadRun(Cfg(helpers[t]), flags[t])} :
           /\ helpers' = [helpers EXCEPT ![t] = cfg.th]
           /\ beg_game_lower_bound_cache' = cfg.bl
           /\ beg_game_upper_bound_cache' = cfg.bu
    /\ steps' = [steps EXCEPT ![t] = IF flags[t] THEN @ ELSE @ + 1]
    /\ UNCHANGED <<line, ply, game, dpc, mode, num_workers, round, main, flags,
                   joined, results, truth>>
    /\ UNCHANGED <<playVars, putVars, dbVars, fnVars>>

\* WorkerThreadHandler::terminate, called on the handlers in order once the
\* main search has returned
Terminate(t) ==
    /\ dpc = "search"
    /\ main.fin
    /\ t \in DOMAIN helpers
    /\ ~flags[t]
    /\ \A u \in 1 .. (t - 1) : flags[u]
    /\ flags' = [flags EXCEPT ![t] = TRUE]
    /\ UNCHANGED <<line, ply, game, dpc, mode, num_workers, round, main, helpers,
                   steps, joined, beg_game_lower_bound_cache,
                   beg_game_upper_bound_cache, results, truth>>
    /\ UNCHANGED <<playVars, putVars, dbVars, fnVars>>

\* WorkerThreadHandler::join, called on the handlers in order after the
\* terminate calls; it returns when the thread has
Join(t) ==
    /\ dpc = "search"
    /\ main.fin
    /\ t \in DOMAIN helpers
    /\ \A u \in DOMAIN helpers : flags[u]
    /\ helpers[t].fin
    /\ joined[t] = "pending"
    /\ \A u \in 1 .. (t - 1) : joined[u] # "pending"
    /\ joined' = [joined EXCEPT ![t] = join(helpers[t])]
    /\ UNCHANGED <<line, ply, game, dpc, mode, num_workers, round, main, helpers,
                   flags, steps, beg_game_lower_bound_cache,
                   beg_game_upper_bound_cache, results, truth>>
    /\ UNCHANGED <<playVars, putVars, dbVars, fnVars>>

\* optimal_moves: the value the root driver returns with the columns of
\* best_moves: 25 - (moves_made div 2) when a column wins at once, else the
\* best value the probes found
optimal_moves_eval(bm) ==
    IF bm.call = "win" THEN MAX_PLAYER_MOVES - (bm.s.moves_made \div 2) ELSE bm.max_eval

\* the driver returns what the main thread computed
Finish ==
    /\ dpc = "search"
    /\ main.fin
    /\ \A u \in DOMAIN helpers : joined[u] # "pending"
    /\ results' = Append(results,
                         IF mode = "evaluate"
                         THEN [eval |-> main.ret, best_moves |-> <<>>]
                         ELSE [eval |-> {optimal_moves_eval(main.bm)},
                               best_moves |-> main.bm.best_moves])
    /\ dpc' = "done"
    /\ UNCHANGED <<line, ply, game, mode, num_workers, round, main, helpers, flags,
                   steps, joined, beg_game_lower_bound_cache,
                   beg_game_upper_bound_cache, truth>>
    /\ UNCHANGED <<playVars, putVars, dbVars, fnVars>>

\* the same root is evaluated again, with the caches as the searches left them
Again ==
    /\ dpc = "done"
    /\ mode = "evaluate"
    /\ round < MaxRounds
    /\ main' = [NewThread(<<RootFrame(game)>>) EXCEPT !.lower = main.lower,
                                                      !.upper = main.upper]
    /\ round' = round + 1
    /\ dpc' = "search"
    /\ UNCHANGED <<line, ply, game, mode, num_workers, helpers, flags, steps, joined,
                   beg_game_lower_bound_cache, beg_game_upper_bound_cache, results,
                   truth>>
    /\ UNCHANGED <<playVars, putVars, dbVars, fnVars>>

Next ==
    \/ PlayStep
    \/ StartEvaluate
    \/ StartBestMoves
    \/ MainStep
    \/ \E t \in 1 .. MaxWorkers : HelperStep(t)
    \/ \E t \in 1 .. MaxWorkers : Terminate(t)
    \/ \E t \in 1 .. MaxWorkers : Join(t)
    \/ Finish
    \/ Again

Spec == Init /\ [][Next]_vars

(***************************************************************************)
(* Properties of the search                                                *)
(***************************************************************************)
Horizon == game.moves_made + RefDepth

NoFour(s) == ~is_win(s.curr_pieces) /\ ~is_win(s.opp_pieces)

\* the reference value of the position a move leads to; a move that
\* completes a four ends the game, lost for the side then to move
ChildRef(s, mv) ==
    IF is_win(update_pieces(s.curr_pieces, mv.next_move))
    THEN [lo |-> -(MAX_PLAYER_MOVES - (s.moves_made \div 2)),
          hi |-> -(MAX_PLAYER_MOVES - (s.moves_made \div 2))]
    ELSE Ref(MkState(s.opp_pieces,
                     update_pieces(s.curr_pieces, mv.next_move),
                     update_height_map(s.height_map, mv.next_move),
                     s.moves_made + 1), Horizon)

LegalMoves(s) ==
    LET moves == next_moves(DEFAULT_MOVE_ORDER, s.height_map)
    IN  {moves[k] : k \in 1 .. Len(moves)}

WinningCols(s) ==
    {mv.col : mv \in {m \in LegalMoves(s) : is_win(update_pieces(s.curr_pieces, m.next_move))}}

\* C1: evaluate, called with the full window on a fresh cache with no helper
\* and no cancellation, on a reached position in which nobody has four in a
\* row, returns the negamax value of the position under distance scoring
EvaluateReturnsNegamaxValue ==
    (dpc = "done" /\ mode = "evaluate" /\ num_workers = 0 /\ NoFour(game))
        => /\ truth.lo = truth.hi
           /\ results[1].eval = {truth.lo}

EvaluateReturnsNegamaxValue_Witness ==
    /\ dpc = "done"
    /\ mode = "evaluate"
    /\ num_workers = 0
    /\ round = 1
    /\ NoFour(game)
    /\ main.pos >= 20
    /\ truth.lo = truth.hi
    /\ truth.lo > 0
    /\ results[1].eval = {truth.lo}

\* C2: on a reached position that is not over, the root driver returns the
\* value of the position and exactly the legal columns whose child has the
\* negated value; when a column wins at once these are exactly the columns
\* that win at once and the value is 25 - (moves_made div 2)
BestMovesAreTheOptimalColumns ==
    (dpc = "done" /\ mode = "best_moves" /\ NoFour(game))
        => LET best == results[1].best_moves
               cols == {best[k] : k \in 1 .. Len(best)}
           IN  /\ truth.lo = truth.hi
               /\ results[1].eval = {truth.lo}
               /\ Cardinality(cols) = Len(best)
               /\ \A mv \in LegalMoves(game) :
                     /\ mv.col \in cols => -ChildRef(game, mv).hi = truth.lo
                     /\ mv.col \notin cols => -ChildRef(game, mv).lo < truth.lo
               /\ WinningCols(game) # {}
                     => /\ cols = WinningCols(game)
                        /\ results[1].eval = {MAX_PLAYER_MOVES - (game.moves_made \div 2)}

BestMovesAreTheOptimalColumns_Witness ==
    /\ dpc = "done"
    /\ mode = "best_moves"
    /\ WinningCols(game) = {}
    /\ main.pos >= 10
    /\ Len(results[1].best_moves) >= 1
    /\ Len(results[1].best_moves) < Cardinality(LegalMoves(game))
    /\ \A mv \in LegalMoves(game) :
          mv.col \in {results[1].best_moves[k] : k \in 1 .. Len(results[1].best_moves)}
              <=> -ChildRef(game, mv).hi = truth.lo

LateEntries(table) ==
    {[state |-> table[idx] \cap BOARD_MASK, bound |-> get_cache_entry_eval(table[idx])]
        : idx \in DOMAIN table}

EarlyEntries(map) == {[state |-> st, bound |-> map[st]] : st \in DOMAIN map}

Threads == {main} \cup {helpers[t] : t \in DOMAIN helpers}

LowerEntries ==
    EarlyEntries(beg_game_lower_bound_cache) \cup UNION {LateEntries(th.lower) : th \in Threads}

UpperEntries ==
    EarlyEntries(beg_game_upper_bound_cache) \cup UNION {LateEntries(th.upper) : th \in Threads}

\* C4: after a completed full-window search, with or without helpers, every
\* lower bound a cache holds is at most the value of its position and every
\* upper bound at least that value, so lower <= value <= upper where both hit
CachedBoundsAreValid ==
    (dpc = "done" /\ mode = "evaluate")
        => /\ \A e \in LowerEntries : e.bound <= Ref(from_bitboard(e.state), Horizon).lo
           /\ \A e \in UpperEntries : e.bound >= Ref(from_bitboard(e.state), Horizon).hi

CachedBoundsAreValid_Witness ==
    /\ dpc = "done"
    /\ mode = "evaluate"
    /\ Len(helpers) = 1
    /\ \E l \in LowerEntries : \E u \in UpperEntries :
          /\ l.state = u.state
          /\ l.bound <= Ref(from_bitboard(l.state), Horizon).lo
          /\ u.bound >= Ref(from_bitboard(u.state), Horizon).hi
    /\ \E st \in DOMAIN beg_game_lower_bound_cache : st # to_bitboard(game)

\* the position helper t was started on: its outermost call
HelperPosition(t) ==
    LET f == helpers[t].stack[1]
    IN  MkState(f.curr_pieces, f.opp_pieces, f.height_map, f.moves_made)

Started == {t \in DOMAIN helpers : helpers[t].stack # <<>>}

\* C9, as stated: at most num_workers helpers are started, no two of them on
\* the same position up to reflection, and none on the root or on its mirror
\* image, whichever of the two the root is.  The positions compared up to
\* reflection are compared by their fingerprints.
HelpersAvoidRootAndEachOther ==
    /\ Len(helpers) <= num_workers
    /\ \A t \in Started :
          /\ to_bitboard(HelperPosition(t)) # to_bitboard(game)
          /\ \A u \in Started \ {t} :
                to_bitboard(HelperPosition(u)) # to_bitboard(HelperPosition(t))

(***************************************************************************)
(* state.rs: plays on a board.  A position of one of the games is taken    *)
(* and play_move, on any column, or an element of next_states is applied   *)
(* to it.                                                                  *)
(***************************************************************************)
MaxPlays == 2

ColumnSlot(col) == Shl(COLUMN_MASK, col_shift(col))

\* the position invariants: the piece counts add up to moves_made, no cell
\* holds two pieces, each column slot of height_map has exactly one bit, at
\* the lowest empty cell of the column, and moves_made is within 0..49
PositionInvariants(s) ==
    /\ Cardinality(s.curr_pieces) + Cardinality(s.opp_pieces) = s.moves_made
    /\ s.curr_pieces \cap s.opp_pieces = {}
    /\ \A col \in 0 .. (COLS - 1) :
          LET filled == (s.curr_pieces \cup s.opp_pieces) \cap ColumnSlot(col)
              height == Cardinality(filled)
          IN  /\ filled = col_shift(col) .. (col_shift(col) + height - 1)
              /\ s.height_map \cap ColumnSlot(col) = {col_shift(col) + height}
    /\ s.moves_made >= 0
    /\ s.moves_made <= MAX_TOTAL_MOVES

\* the cell a play put its piece in is one of the seven rows of a column
InTheRows(before, after) == (after.curr_pieces \cup after.opp_pieces)
                                \ (before.curr_pieces \cup before.opp_pieces)
                            \subseteq IS_LEGAL

InitPlay ==
    /\ SearchIdle /\ PutIdle /\ DbIdle /\ FnIdle
    /\ \E l \in DOMAIN Lines : \E n \in 0 .. Len(Lines[l]) : board = PositionAfter(l, n)
    /\ last = [kind |-> "none", col |-> 0, legal |-> TRUE]
    /\ plays = 0

\* State::play_move on column col of a position that satisfies the invariants
PlayMove(col) ==
    /\ plays < MaxPlays
    /\ PositionInvariants(board)
    /\ \E next \in {play_move(board, col)} :
          /\ board' = next
          /\ last' = [kind |-> "play_move", col |-> col, legal |-> InTheRows(board, next)]
    /\ plays' = plays + 1
    /\ UNCHANGED <<searchVars, putVars, dbVars, fnVars>>

\* an element of State::next_states of such a position
NextState ==
    /\ plays < MaxPlays
    /\ PositionInvariants(board)
    /\ \E nexts \in {next_states(board)} :
       \E k \in DOMAIN nexts :
          /\ board' = nexts[k]
          /\ last' = [kind |-> "next_states", col |-> k,
                      legal |-> InTheRows(board, nexts[k])]
    /\ plays' = plays + 1
    /\ UNCHANGED <<searchVars, putVars, dbVars, fnVars>>

NextPlay ==
    \/ \E col \in 0 .. (COLS - 1) : PlayMove(col)
    \/ NextState

SpecPlay == InitPlay /\ [][NextPlay]_vars

\* C5, as it holds: a play that puts its piece in one of the seven rows of a
\* column (play_move on a column that is not full, or any element of
\* next_states), applied to a position that satisfies the position
\* invariants, gives a position that satisfies them too
PlayKeepsInvariantsWhereColumnHasRoom ==
    (last.kind # "none" /\ last.legal) => PositionInvariants(board)

PlayKeepsInvariantsWhereColumnHasRoom_Witness ==
    /\ last.kind = "play_move"
    /\ last.legal
    /\ plays = MaxPlays
    /\ (board.height_map \cap ColumnSlot(last.col)) \cap IS_LEGAL = {}
    /\ PositionInvariants(board)

\* C5, as stated: after any play, play_move on any column 0..6 or any
\* element of next_states, applied to a position that satisfies the position
\* invariants, the position satisfies them too
PlayKeepsInvariants ==
    last.kind # "none" => PositionInvariants(board)

(***************************************************************************)
(* engine.rs: puts into the caches.  Threads that share the early-game     *)
(* maps, each with late-game tables of its own, put bounds for positions   *)
(* of games, in any order.                                                 *)
(***************************************************************************)
PutThreads == 2
MaxPuts == 3

\* the bounds put: the ends of the range a cache word can hold, and one between
PutBounds == {-MAX_PLAYER_MOVES, 0, MAX_PLAYER_MOVES}

\* column c seen from the other side of the board
Mirror(c) == (COLS - 1) - c

\* The games whose last positions bounds are put for.  The first is a game of
\* Lines, the second its mirror image (the same fingerprint), the third
\* another game of Lines; these three are early-game positions.  The last
\* two are late-game positions whose fingerprints differ and share a slot
\* of the late-game tables.
PutGames ==
    << Lines[1],
       [k \in DOMAIN Lines[1] |-> Mirror(Lines[1][k])],
       Lines[3],
       <<1,2,5,4,3,2,5,5,6,3,0,3,0,3,2,5,0,5,1,4,5,0,0,0,0,2,1,2,2,2,3,3,6,5,6>>,
       <<3,6,4,5,2,4,4,1,4,4,4,3,2,3,3,1,6,4,6,0,2,5,5,0,5,6,0,1,0,0,0,5,6,0>> >>

PutPositions ==
    [g \in DOMAIN PutGames |->
        Loop(LAMBDA s, k : play_move(s, PutGames[g][k]), start_state, 1,
             Len(PutGames[g]) + 1)]

\* the fingerprint, ply and table slot of each position
PutKeys ==
    [g \in DOMAIN PutGames |->
        [state |-> to_bitboard(PutPositions[g]),
         moves_made |-> PutPositions[g].moves_made,
         idx |-> cache_index(to_bitboard(PutPositions[g]))]]

InitPut ==
    /\ SearchIdle /\ PlayIdle /\ DbIdle /\ FnIdle
    /\ put_caches = [t \in 1 .. PutThreads |-> NewThread(<<>>)]
    /\ shared = [lower |-> <<>>, upper |-> <<>>]
    /\ put_log = [n |-> 0, lower |-> {}, upper |-> {}, last |-> <<>>]

\* what the log holds after thread t put bound for key k into its cache `which`
Logged(t, which, k, bound) ==
    IF k.moves_made <= BEGINNING_GAME_CACHE_DEPTH
    THEN [put_log EXCEPT !.n = @ + 1,
                         ![which] = @ \cup {[state |-> k.state, bound |-> bound, t |-> t]}]
    ELSE LET slot == <<t, which, k.idx>>
             prev == IF slot \in DOMAIN put_log.last THEN put_log.last[slot].state ELSE {}
         IN  [put_log EXCEPT
                !.n = @ + 1,
                !.last = [x \in (DOMAIN @) \cup {slot} |->
                            IF x = slot
                            THEN [state |-> k.state, bound |-> bound, prev |-> prev]
                            ELSE @[x]]]

\* thread t calls cache_put_lower_bound for the position of game g
PutLower(t, g, bound) ==
    /\ put_log.n < MaxPuts
    /\ \E k \in {PutKeys[g]} :
       \E cfg \in {cache_put_lower_bound(bound, k.state, k.moves_made, k.idx,
                                         [th |-> put_caches[t], bl |-> shared.lower,
                                          bu |-> shared.upper])} :
          /\ put_caches' = [put_caches EXCEPT ![t] = cfg.th]
          /\ shared' = [lower |-> cfg.bl, upper |-> cfg.bu]
          /\ put_log' = Logged(t, "lower", k, bound)
    /\ UNCHANGED <<searchVars, playVars, dbVars, fnVars>>

\* thread t calls cache_put_upper_bound for the position of game g
PutUpper(t, g, bound) ==
    /\ put_log.n < MaxPuts
    /\ \E k \in {PutKeys[g]} :
       \E cfg \in {cache_put_upper_bound(bound, k.state, k.moves_made, k.idx,
                                         [th |-> put_caches[t], bl |-> shared.lower,
                                          bu |-> shared.upper])} :
          /\ put_caches' = [put_caches EXCEPT ![t] = cfg.th]
          /\ shared' = [lower |-> cfg.bl, upper |-> cfg.bu]
          /\ put_log' = Logged(t, "upper", k, bound)
    /\ UNCHANGED <<searchVars, playVars, dbVars, fnVars>>

NextPut ==
    \/ \E t \in 1 .. PutThreads : \E g \in DOMAIN PutGames : \E bound \in PutBounds :
          PutLower(t, g, bound)
    \/ \E t \in 1 .. PutThreads : \E g \in DOMAIN PutGames : \E bound \in PutBounds :
          PutUpper(t, g, bound)

SpecPut == InitPut /\ [][NextPut]_vars

SetMin(S) == CHOOSE x \in S : \A y \in S : x <= y

\* the bounds put so far into the shared map `which` under fingerprint st
BoundsPut(which, st) == {e.bound : e \in {x \in put_log[which] : x.state = st}}

EarlyFingerprints ==
    {PutKeys[g].state : g \in {x \in DOMAIN PutGames :
                                 PutKeys[x].moves_made <= BEGINNING_GAME_CACHE_DEPTH}}

LateGames == {g \in DOMAIN PutGames : PutKeys[g].moves_made > BEGINNING_GAME_CACHE_DEPTH}

\* the shared maps hold, under every fingerprint, the best of the bounds put
SharedMapsHoldBest ==
    /\ DOMAIN shared.lower \subseteq EarlyFingerprints
    /\ DOMAIN shared.upper \subseteq EarlyFingerprints
    /\ \A st \in EarlyFingerprints :
          /\ IF BoundsPut("lower", st) = {}
             THEN st \notin DOMAIN shared.lower
             ELSE /\ st \in DOMAIN shared.lower
                  /\ shared.lower[st] = SetMax(BoundsPut("lower", st))
          /\ IF BoundsPut("upper", st) = {}
             THEN st \notin DOMAIN shared.upper
             ELSE /\ st \in DOMAIN shared.upper
                  /\ shared.upper[st] = SetMin(BoundsPut("upper", st))

\* a step never weakens, and never removes, a bound of the shared maps
SharedMapsOnlyImprove ==
    /\ \A st \in DOMAIN shared.lower :
          st \in DOMAIN shared.lower' /\ shared.lower'[st] >= shared.lower[st]
    /\ \A st \in DOMAIN shared.upper :
          st \in DOMAIN shared.upper' /\ shared.upper'[st] <= shared.upper[st]

\* C6: under any interleaving of the puts of the threads, the value the shared
\* lower-bound map stores under a fingerprint never decreases and is the
\* maximum of all the bounds put for it so far, and the value of the shared
\* upper-bound map never increases and is the minimum of them; a fingerprint
\* nothing was put for is absent.
SharedPutsKeepTheBestBound ==
    /\ []SharedMapsHoldBest
    /\ [][SharedMapsOnlyImprove]_vars

\* two threads have put different lower bounds for one fingerprint, the map
\* holds the larger, and an upper bound was put for it as well
SharedPutsKeepTheBestBound_Witness ==
    /\ put_log.n = MaxPuts
    /\ \E a \in put_log.lower : \E b \in put_log.lower :
          /\ a.state = b.state /\ a.t # b.t /\ a.bound < b.bound
          /\ shared.lower[a.state] = b.bound
          /\ a.state \in DOMAIN shared.upper

\* what thread t reads from its cache `which` for the position of game g
LateLookup(t, which, g) ==
    LET cfg == [th |-> put_caches[t], bl |-> shared.lower, bu |-> shared.upper]
        k == PutKeys[g]
    IN  IF which = "lower"
        THEN lower_bound_cache_lookup(k.state, k.moves_made, k.idx, cfg)
        ELSE upper_bound_cache_lookup(k.state, k.moves_made, k.idx, cfg)

Sentinel(which) == IF which = "lower" THEN MIN_EVAL ELSE MAX_EVAL

\* C7: in the late-game tables a lookup returns the bound of the most recent
\* put into its slot if that put had the fingerprint looked up, and the
\* sentinel otherwise (a slot never written included); and the packed word
\* keeps the fingerprint and decodes to the bound for every bound in -25..25.
LateTableReturnsLastPutOfFingerprint ==
    /\ \A t \in DOMAIN put_caches : \A which \in {"lower", "upper"} : \A g \in LateGames :
          LET slot == <<t, which, PutKeys[g].idx>>
          IN  IF slot \in DOMAIN put_log.last /\ put_log.last[slot].state = PutKeys[g].state
              THEN LateLookup(t, which, g) = put_log.last[slot].bound
              ELSE LateLookup(t, which, g) = Sentinel(which)
    /\ \A g \in LateGames : \A bound \in (-MAX_PLAYER_MOVES) .. MAX_PLAYER_MOVES :
          /\ get_cache_entry_eval(create_cache_entry(PutKeys[g].state, bound)) = bound
          /\ create_cache_entry(PutKeys[g].state, bound) \cap BOARD_MASK = PutKeys[g].state

\* a put has replaced the word of another fingerprint in its slot, so the
\* slot misses for the fingerprint replaced and hits for the one put
LateTableReturnsLastPutOfFingerprint_Witness ==
    \E slot \in DOMAIN put_log.last : \E g \in LateGames : \E h \in LateGames :
        /\ put_log.last[slot].prev = PutKeys[h].state
        /\ put_log.last[slot].state = PutKeys[g].state
        /\ PutKeys[g].state # PutKeys[h].state
        /\ PutKeys[g].idx = slot[3] /\ PutKeys[h].idx = slot[3]
        /\ LateLookup(slot[1], slot[2], h) = Sentinel(slot[2])
        /\ LateLookup(slot[1], slot[2], g) = put_log.last[slot].bound
        /\ put_log.last[slot].bound # Sentinel(slot[2])

(***************************************************************************)
(* worker_threads.rs: cooperative cancellation.  The threads are threads   *)
(* of the operating system, which keeps running each of them, and the      *)
(* driver goes on to call terminate and join on every handler: a step of   *)
(* the main thread, of a helper or of the driver that stays possible is    *)
(* taken.                                                                  *)
(***************************************************************************)
\* the guards of MainStep and HelperStep(t): a step of a thread that has not
\* returned is possible, and it changes the thread
MainCanStep == dpc = "search" /\ ~main.fin

HelperCanStep(t) ==
    /\ dpc = "search"
    /\ t \in DOMAIN helpers
    /\ ~helpers[t].fin
    /\ flags[t] \/ steps[t] < MaxHelperSteps

\* Weak fairness of every step.  For the steps of the threads it is written
\* out, WF_vars(A) being []<>~ENABLED <<A>>_vars \/ []<><<A>>_vars, with the
\* guard of the step for ENABLED and the change of the thread for the step.
FairSpec ==
    /\ Spec
    /\ []<>(~MainCanStep) \/ []<><<main' # main>>_vars
    /\ \A t \in 1 .. MaxWorkers :
          []<>(~HelperCanStep(t))
              \/ []<><<t \in DOMAIN helpers /\ t \in DOMAIN helpers'
                        /\ helpers'[t] # helpers[t]>>_vars
    /\ \A t \in 1 .. MaxWorkers : WF_vars(Terminate(t))
    /\ \A t \in 1 .. MaxWorkers : WF_vars(Join(t))
    /\ WF_vars(Finish)

\* helper t takes a step
HelperMoves(t) ==
    /\ t \in DOMAIN helpers
    /\ t \in DOMAIN helpers'
    /\ helpers'[t] # helpers[t]

\* a helper whose flag is set sees it on its next function entry, and that
\* entry returns None
SeenAtNextEntry ==
    \A t \in 1 .. MaxWorkers :
        (/\ HelperMoves(t)
         /\ flags[t]
         /\ helpers[t].stack # <<>>
         /\ Top(helpers[t]).pc = "entry")
            => /\ helpers'[t].observed
               /\ helpers'[t].ret = {}
               /\ Len(helpers'[t].stack) < Len(helpers[t].stack)

\* a helper that has seen its flag only returns: it enters no position,
\* calls no child and writes no cache, and every frame returns None
OnlyReturnsOnceSeen ==
    \A t \in 1 .. MaxWorkers :
        (HelperMoves(t) /\ helpers[t].observed)
            => /\ helpers'[t].observed
               /\ helpers'[t].ret = {}
               /\ helpers'[t].pos = helpers[t].pos
               /\ Len(helpers'[t].stack) < Len(helpers[t].stack)
               /\ helpers'[t].lower = helpers[t].lower
               /\ helpers'[t].upper = helpers[t].upper
               /\ UNCHANGED <<beg_game_lower_bound_cache, beg_game_upper_bound_cache>>

\* None is returned only by a search that has seen its flag set
NoneOnlyIfSeen ==
    /\ \A t \in DOMAIN helpers :
          /\ helpers[t].observed => flags[t]
          /\ (helpers[t].fin /\ helpers[t].ret = {}) => helpers[t].observed
          /\ joined[t] = "Err" => helpers[t].observed
    /\ ~main.observed
    /\ (main.fin /\ mode = "evaluate") => main.ret # {}

\* C8: cancellation is live and the only source of None: once terminate has
\* set a helper's flag the helper sees it on its next function entry, every
\* frame then returns None without searching on, the helper thread ends and
\* its join returns; and a search returns None only if one of its function
\* entries saw the flag set.
CancellationIsLiveAndOnlySourceOfNone ==
    /\ []NoneOnlyIfSeen
    /\ [][SeenAtNextEntry /\ OnlyReturnsOnceSeen]_vars
    /\ \A t \in 1 .. MaxWorkers :
          (t \in DOMAIN flags /\ flags[t])
              ~> (t \in DOMAIN joined /\ helpers[t].fin /\ joined[t] # "pending")

\* a helper that was cancelled in the middle of its search several frames
\* deep has been joined
CancellationIsLiveAndOnlySourceOfNone_Witness ==
    /\ Len(helpers) = 1
    /\ flags[1]
    /\ helpers[1].observed
    /\ helpers[1].fin
    /\ helpers[1].ret = {}
    /\ helpers[1].pos >= 3
    /\ joined[1] = "Err"
    /\ dpc = "search"

(***************************************************************************)
(* worker_threads.rs: the database generator's worker pool.  The queue is  *)
(* filled before the workers are spawned; each worker loops: it locks the  *)
(* queue, pops its front, unlocks, and solves what it popped, or ends on   *)
(* an empty queue.                                                         *)
(***************************************************************************)
MaxDbWorkers == 3
MaxJobs == 3

\* the positions that can be queued, in queue order: the last positions but
\* one of the longest of the games
DbJobs ==
    [j \in 1 .. MaxJobs |-> PositionAfter(6, (Len(Lines[6]) - MaxJobs - 1) + j)]

\* VecDeque::pop_front: the front, if any, and the queue without it
pop_front_peek(queue) ==
    IF queue = <<>> THEN [got |-> {}, rest |-> <<>>]
    ELSE [got |-> {Head(queue)}, rest |-> queue]

pop_front(queue) ==
    IF queue = <<>> THEN [got |-> {}, rest |-> <<>>]
    ELSE [got |-> {Head(queue)}, rest |-> Tail(queue)]

\* optimal_moves_with_workers, its value: the root driver returns Ok with the
\* value of the position
optimal_moves_with_workers(state) == Ref(state, MAX_TOTAL_MOVES).lo

\* StateCaches::put_beg_game_lower_bound: the bound goes into the shared
\* lower-bound map, an update taking the maximum with the value held
put_beg_game_lower_bound(map, eval, bitboard) == Upsert(map, bitboard, eval, TRUE)

InitDb ==
    /\ SearchIdle /\ PlayIdle /\ PutIdle /\ FnIdle
    /\ \E n \in 0 .. MaxJobs : states = SubSeq(DbJobs, 1, n)
    /\ positions_lock = 0
    /\ \E W \in 1 .. MaxDbWorkers :
          /\ db_pc = [w \in 1 .. W |-> "lock"]
          /\ state_opt = [w \in 1 .. W |-> {}]
    /\ popped = <<>>
    /\ db_lower = <<>>

\* What worker w can do next.  Every step does what it does whenever its
\* condition holds, so the condition is what enables the step.
CanLock(w) == w \in DOMAIN db_pc /\ db_pc[w] = "lock" /\ positions_lock = 0
CanPop(w) == w \in DOMAIN db_pc /\ db_pc[w] = "pop"
CanUnlock(w) == w \in DOMAIN db_pc /\ db_pc[w] = "unlock"
CanSolve(w) == w \in DOMAIN db_pc /\ db_pc[w] = "solve" /\ state_opt[w] # {}

\* states.lock(): the worker waits until the lock is free and takes it
DbLock(w) ==
    /\ CanLock(w)
    /\ positions_lock' = w
    /\ db_pc' = [db_pc EXCEPT ![w] = "pop"]
    /\ UNCHANGED <<states, state_opt, popped, db_lower>>
    /\ UNCHANGED <<searchVars, playVars, putVars, fnVars>>

\* positions_lock.pop_front()
DbPop(w) ==
    /\ CanPop(w)
    /\ \E r \in {pop_front(states)} :
          /\ states' = r.rest
          /\ state_opt' = [state_opt EXCEPT ![w] = r.got]
          /\ popped' = Append(popped, [w |-> w, got |-> r.got, before |-> Len(states)])
    /\ db_pc' = [db_pc EXCEPT ![w] = "unlock"]
    /\ UNCHANGED <<positions_lock, db_lower>>
    /\ UNCHANGED <<searchVars, playVars, putVars, fnVars>>

\* the end of the block: the guard is dropped; then the match on state_opt
DbUnlock(w) ==
    /\ CanUnlock(w)
    /\ positions_lock' = 0
    /\ db_pc' = [db_pc EXCEPT ![w] = IF state_opt[w] = {} THEN "done" ELSE "solve"]
    /\ UNCHANGED <<states, state_opt, popped, db_lower>>
    /\ UNCHANGED <<searchVars, playVars, putVars, fnVars>>

\* Some(state): the position is solved and its value put; the loop goes on
DbSolve(w) ==
    /\ CanSolve(w)
    /\ \E state \in state_opt[w] :
       \E eval \in {optimal_moves_with_workers(state)} :
          db_lower' = put_beg_game_lower_bound(db_lower, eval, to_bitboard(state))
    /\ db_pc' = [db_pc EXCEPT ![w] = "lock"]
    /\ UNCHANGED <<states, positions_lock, state_opt, popped>>
    /\ UNCHANGED <<searchVars, playVars, putVars, fnVars>>

NextDb ==
    \/ \E w \in 1 .. MaxDbWorkers : DbLock(w)
    \/ \E w \in 1 .. MaxDbWorkers : DbPop(w)
    \/ \E w \in 1 .. MaxDbWorkers : DbUnlock(w)
    \/ \E w \in 1 .. MaxDbWorkers : DbSolve(w)

SpecDb == InitDb /\ [][NextDb]_vars

\* the positions popped so far, in the order popped
RECURSIVE PoppedPositions(_)
PoppedPositions(log) ==
    IF log = <<>> THEN <<>>
    ELSE PoppedPositions(SubSeq(log, 1, Len(log) - 1))
            \o (IF log[Len(log)].got = {} THEN <<>>
                ELSE <<CHOOSE st \in log[Len(log)].got : TRUE>>)

\* the queue as it was filled: what was popped and what is left
Queued == PoppedPositions(popped) \o states

\* the pops of worker w
PopsOf(w) == SelectSeq(popped, LAMBDA e : e.w = w)

AllDone == \A w \in DOMAIN db_pc : db_pc[w] = "done"

\* some worker can take a step
SomeWorkerCanStep ==
    \E w \in DOMAIN db_pc : CanLock(w) \/ CanPop(w) \/ CanUnlock(w) \/ CanSolve(w)

\* every position queued is popped once, or still queued
PoppedOnce ==
    /\ Queued = SubSeq(DbJobs, 1, Len(Queued))
    /\ \A i \in DOMAIN popped : \A j \in DOMAIN popped :
          (i # j /\ popped[i].got # {}) => popped[i].got # popped[j].got
    /\ AllDone => states = <<>>

\* the lock is held by the worker that is popping, by that one only
LockOnlyForPop ==
    \A w \in DOMAIN db_pc :
        /\ positions_lock = w <=> db_pc[w] \in {"pop", "unlock"}
        /\ db_pc[w] = "solve" => positions_lock # w

\* a worker has ended only after a pop that found the queue empty, and it
\* has solved what it popped before
ExitOnlyOnEmpty ==
    \A w \in DOMAIN db_pc :
        db_pc[w] = "done"
            => /\ PopsOf(w) # <<>>
               /\ PopsOf(w)[Len(PopsOf(w))].got = {}
               /\ PopsOf(w)[Len(PopsOf(w))].before = 0
               /\ \A k \in 1 .. (Len(PopsOf(w)) - 1) :
                     /\ PopsOf(w)[k].got # {}
                     /\ \A st \in PopsOf(w)[k].got : to_bitboard(st) \in DOMAIN db_lower

\* a step pops the front of the queue or leaves the queue alone
QueueOnlyPopped == Queued' = Queued

RawBitboard(s) == s.curr_pieces \cup s.height_map

\* the board was reached by plays on columns with room
ReachedByPlay == last.kind = "none" \/ (last.legal /\ PositionInvariants(board))

\* C11: for every reachable state S, from_bitboard of the bitboard
\* curr_pieces | height_map of S, not canonicalized, is S: the same
\* curr_pieces, opp_pieces, height_map and moves_made.
FromBitboardRebuildsState ==
    ReachedByPlay => from_bitboard(RawBitboard(board)) = board

\* a position with a full column and pieces of both sides, whose bitboard
\* is not the canonical one of its pair, was rebuilt
FromBitboardRebuildsState_Witness ==
    /\ last.kind = "next_states"
    /\ ReachedByPlay
    /\ \E col \in 0 .. (COLS - 1) : (board.height_map \cap ColumnSlot(col)) \cap IS_LEGAL = {}
    /\ board.curr_pieces # {}
    /\ board.opp_pieces # {}
    /\ to_bitboard(board) # RawBitboard(board)
    /\ from_bitboard(RawBitboard(board)) = board

(***************************************************************************)
(* engine.rs: is_win, called on sets of pieces.  The sets are the pieces   *)
(* of either side in the positions of the games, and the cells of a run of *)
(* four bits in one of the four shifts that lie in the seven rows; a cell  *)
(* is added the way a move adds it, and is_win is called.                  *)
(***************************************************************************)
MaxCells == 1

\* the bits b, b + d, b + 2d, b + 3d that are cells of the board
Run(b, d) == {b + (k * d) : k \in 0 .. 3} \cap IS_LEGAL

WinInputs ==
    {Run(b, CONNECTION_DIRECTIONS[k]) : b \in BOARD_MASK, k \in DOMAIN CONNECTION_DIRECTIONS}
        \cup {PositionAfter(l, Len(Lines[l])).curr_pieces : l \in DOMAIN Lines}
        \cup {PositionAfter(l, Len(Lines[l])).opp_pieces : l \in DOMAIN Lines}

InitWin ==
    /\ SearchIdle /\ PlayIdle /\ PutIdle /\ DbIdle
    /\ arg \in WinInputs
    /\ out = <<>>
    /\ calls = 0

\* is_win(pieces)
WinCall ==
    /\ out = <<>>
    /\ out' = [is_win |-> is_win(arg)]
    /\ UNCHANGED <<arg, calls>>
    /\ UNCHANGED <<searchVars, playVars, putVars, dbVars>>

\* is_win(pieces | cell), cell a free cell of the board
WinAdd(cell) ==
    /\ calls < MaxCells
    /\ cell \in IS_LEGAL \ arg
    /\ arg' = update_pieces(arg, {cell})
    /\ out' = [is_win |-> is_win(update_pieces(arg, {cell}))]
    /\ calls' = calls + 1
    /\ UNCHANGED <<searchVars, playVars, putVars, dbVars>>

NextWin ==
    \/ WinCall
    \/ \E cell \in BOARD_MASK : WinAdd(cell)

SpecWin == InitWin /\ [][NextWin]_vars

\* the loop of is_win for one direction, as written: connections starts as
\* pieces and three times becomes connections & (connections >> i)
Connections(pieces, i) ==
    LET c1 == pieces \cap Shr(pieces, i)
        c2 == c1 \cap Shr(c1, i)
    IN  c2 \cap Shr(c2, i)

\* the bit of the cell in column col and row row
Cell(col, row) == (col * COL_BITS) + row

OnBoard(col, row) == col \in 0 .. (COLS - 1) /\ row \in 0 .. (ROWS - 1)

\* up, right, up-right and down-right
LineDirections == {<<0, 1>>, <<1, 0>>, <<1, 1>>, <<1, -1>>}

\* four cells of the board in a straight line are in pieces
HasLine(pieces) ==
    \E col \in 0 .. (COLS - 1) : \E row \in 0 .. (ROWS - 1) : \E d \in LineDirections :
        \A k \in 0 .. 3 :
            /\ OnBoard(col + (k * d[1]), row + (k * d[2]))
            /\ Cell(col + (k * d[1]), row + (k * d[2])) \in pieces

\* C12: for a set of pieces with no sentinel bit and no bit above 55, is_win
\* is true exactly if the set holds four cells of the board in a straight
\* line, vertical, horizontal or diagonal; no shift reports cells that run
\* from the top of one column into the next.
IsWinIsFourInLine ==
    (out # <<>> /\ arg \subseteq IS_LEGAL)
        => /\ out.is_win = HasLine(arg)
           /\ out.is_win = (\E k \in DOMAIN CONNECTION_DIRECTIONS :
                               Connections(arg, CONNECTION_DIRECTIONS[k]) # {})

\* the three top cells of a column and the bottom cell of the next: four
\* pieces a shift by one would join if no sentinel bit lay between them
IsWinIsFourInLine_Witness ==
    /\ calls = MaxCells
    /\ out # <<>>
    /\ ~out.is_win
    /\ \E col \in 0 .. (COLS - 2) :
          {Cell(col, 4), Cell(col, 5), Cell(col, 6), Cell(col + 1, 0)} \subseteq arg

(***************************************************************************)
(* engine.rs: evaluate_position, one step at a time.  A position of one of *)
(* the games is searched with the full window on fresh caches by one       *)
(* thread, and every step of the search is a step of the specification.    *)
(***************************************************************************)
\* how many moves before the end of its game a searched position may lie
MaxBack == 3

InitEval ==
    /\ PlayIdle /\ PutIdle /\ DbIdle /\ FnIdle
    /\ line \in DOMAIN Lines
    /\ \E back \in 0 .. MaxBack :
          /\ ply = Len(Lines[line]) - back
          /\ game = PositionAfter(line, Len(Lines[line]) - back)
          /\ main = NewThread(<<RootFrame(PositionAfter(line, Len(Lines[line]) - back))>>)
    /\ dpc = "steps"
    /\ mode = "evaluate"
    /\ num_workers = 0
    /\ round = 1
    /\ helpers = <<>>
    /\ flags = <<>>
    /\ steps = <<>>
    /\ joined = <<>>
    /\ beg_game_lower_bound_cache = <<>>
    /\ beg_game_upper_bound_cache = <<>>
    /\ results = <<>>
    /\ truth = [lo |-> MIN_EVAL, hi |-> MAX_EVAL]

\* the next step of evaluate_position
EvalStep ==
    /\ dpc = "steps"
    /\ ~main.fin
    /\ \E cfg \in {MicroStep(Cfg(main), FALSE)} :
           /\ main' = cfg.th
           /\ beg_game_lower_bound_cache' = cfg.bl
           /\ beg_game_upper_bound_cache' = cfg.bu
    /\ UNCHANGED <<line, ply, game, dpc, mode, num_workers, round, helpers, flags,
                   steps, joined, results, truth>>
    /\ UNCHANGED <<playVars, putVars, dbVars, fnVars>>

NextEval == EvalStep

SpecEval == InitEval /\ [][NextEval]_vars

\* the legal columns in which the opponent, if it were to move, would
\* complete four in a line
OppWinningCols(f) ==
    {col \in 0 .. (COLS - 1) :
        /\ open_row(f.height_map, col) \cap IS_LEGAL # {}
        /\ HasLine(f.opp_pieces \cup open_row(f.height_map, col))}

\* the call is at the end of its enumeration pass
AtEndOfEnumeration ==
    /\ dpc = "steps"
    /\ main.stack # <<>>
    /\ Top(main).pc = "enum"
    /\ Top(main).i > Len(Top(main).moves)

\* with two columns or more the call returns the loss and calls no child
DoubleThreatLoses ==
    (AtEndOfEnumeration /\ Cardinality(OppWinningCols(Top(main))) > 1)
        => /\ main'.ret = {-(MAX_PLAYER_MOVES - ((Top(main).moves_made + 1) \div 2))}
           /\ main'.stack = SubSeq(main.stack, 1, Len(main.stack) - 1)
           /\ main'.pos = main.pos

\* with one column the call calls the child of the move in that column,
\* with the window (-beta, -alpha)
SingleThreatIsAnswered ==
    (AtEndOfEnumeration /\ Cardinality(OppWinningCols(Top(main))) = 1)
        => LET f == Top(main)
               col == CHOOSE c \in OppWinningCols(f) : TRUE
               mv == open_row(f.height_map, col)
           IN  /\ Len(main'.stack) = Len(main.stack) + 1
               /\ main'.stack[Len(main.stack)].call = "forced"
               /\ Top(main') = NewFrame(f.opp_pieces, f.curr_pieces \cup mv,
                                        U64Add(f.height_map, mv), f.moves_made + 1,
                                        -f.beta, -f.alpha)

\* and returns what that child returned, negated, calling no other child
AnswerIsReturnedNegated ==
    (/\ dpc = "steps"
     /\ main.stack # <<>>
     /\ Top(main).pc = "ret"
     /\ Top(main).call = "forced")
        => /\ main.ret # {}
           /\ main'.ret = {-v : v \in main.ret}
           /\ main'.stack = SubSeq(main.stack, 1, Len(main.stack) - 1)

\* C13: at the end of the enumeration pass of evaluate, when the opponent
\* could complete four in a line in two legal columns or more, evaluate
\* returns -(25 - ((moves_made + 1) div 2)) and calls no child; when in
\* exactly one, it calls only the child of the move in that column, with
\* the window (-beta, -alpha), and returns its result negated.
ThreatsAtEndOfEnumeration ==
    [][DoubleThreatLoses /\ SingleThreatIsAnswered /\ AnswerIsReturnedNegated]_vars

\* the child of the forced move of a call
ForcedChild(f) ==
    NewFrame(f.opp_pieces, f.curr_pieces \cup f.forced_move,
             U64Add(f.height_map, f.forced_move), f.moves_made + 1, -f.beta, -f.alpha)

\* a call with one winning column of the opponent has called the child of
\* the move in that column; the child met two winning columns of its own
\* opponent and has returned the loss, which the call is about to negate
ThreatsAtEndOfEnumeration_Witness ==
    /\ dpc = "steps"
    /\ main.stack # <<>>
    /\ Top(main).pc = "ret"
    /\ Top(main).call = "forced"
    /\ Cardinality(OppWinningCols(Top(main))) = 1
    /\ Cardinality(OppWinningCols(ForcedChild(Top(main)))) > 1
    /\ main.ret = {-(MAX_PLAYER_MOVES - ((Top(main).moves_made + 2) \div 2))}

(***************************************************************************)
(* worker_threads.rs: what join hands to the driver for a helper whose     *)
(* search was cancelled.                                                   *)
(***************************************************************************)
\* the helper's search returned no value: it observed its flag
Cancelled(t) == helpers[t].fin /\ helpers[t].ret = {}

\* C14: joining a helper whose search was cancelled hands no error to the
\* driver: join after terminate returns Ok for it, as for a helper whose
\* search ran to its end.
CancelledHelperJoinsWithoutError ==
    \A t \in DOMAIN joined : Cancelled(t) => joined[t] \in {"pending", "Ok"}

(***************************************************************************)
(* database.rs: generate_database from the spawning of the workers on.     *)
(* The queue holds the positions generate_optimal_reachable_states has     *)
(* collected, one at least; num_workers workers are spawned, none for      *)
(* num_workers = 0; the driver joins the handlers in order, returns the    *)
(* first error a join returns, and writes the maps once every join has     *)
(* returned Ok.  calls counts the handlers joined, out is what             *)
(* generate_database returned and the file it wrote.                       *)
(***************************************************************************)
InitGen ==
    /\ SearchIdle /\ PlayIdle /\ PutIdle /\ FnIdle
    /\ \E n \in 1 .. MaxJobs : states = SubSeq(DbJobs, 1, n)
    /\ positions_lock = 0
    /\ \E num \in 0 .. MaxDbWorkers :
          /\ db_pc = [w \in 1 .. num |-> "lock"]
          /\ state_opt = [w \in 1 .. num |-> {}]
    /\ popped = <<>>
    /\ db_lower = <<>>

\* optimal_moves_with_workers(...)?: the root driver returns an error and
\* the worker's closure returns it
DbFail(w) ==
    /\ CanSolve(w)
    /\ db_pc' = [db_pc EXCEPT ![w] = "err"]
    /\ UNCHANGED <<states, positions_lock, state_opt, popped, db_lower>>
    /\ UNCHANGED <<searchVars, playVars, putVars, fnVars>>

\* pos += handler.join()?: the next handler is joined once its worker has
\* ended; an error ends generate_database
GenJoin ==
    /\ out = <<>>
    /\ calls < Len(db_pc)
    /\ db_pc[calls + 1] \in {"done", "err"}
    /\ IF db_pc[calls + 1] = "err"
       THEN /\ out' = [ret |-> "Err", file |-> {}]
            /\ calls' = calls
       ELSE /\ out' = out
            /\ calls' = calls + 1
    /\ UNCHANGED arg
    /\ UNCHANGED <<searchVars, playVars, putVars, dbVars>>

\* write_caches_to_databases(caches)?; Ok(pos)
GenWrite ==
    /\ out = <<>>
    /\ calls = Len(db_pc)
    /\ out' = [ret |-> "Ok", file |-> {db_lower}]
    /\ UNCHANGED <<arg, calls>>
    /\ UNCHANGED <<searchVars, playVars, putVars, dbVars>>

NextGen ==
    \/ \E w \in 1 .. MaxDbWorkers : DbLock(w)
    \/ \E w \in 1 .. MaxDbWorkers : DbPop(w)
    \/ \E w \in 1 .. MaxDbWorkers : DbUnlock(w)
    \/ \E w \in 1 .. MaxDbWorkers : DbSolve(w)
    \/ \E w \in 1 .. MaxDbWorkers : DbFail(w)
    \/ GenJoin
    \/ GenWrite

SpecGen == InitGen /\ [][NextGen]_vars

\* the file is written only after every worker has ended
WrittenAfterWorkersEnded ==
    (out # <<>> /\ out.file # {}) => \A w \in DOMAIN db_pc : db_pc[w] \in {"done", "err"}

\* on Ok every position queued has its value in the lower-bound map
OkMeansAllSolved ==
    (out # <<>> /\ out.ret = "Ok")
        => \A i \in DOMAIN Queued :
              /\ to_bitboard(Queued[i]) \in DOMAIN db_lower
              /\ db_lower[to_bitboard(Queued[i])] = optimal_moves_with_workers(Queued[i])

\* a worker's error is returned and nothing is written
ErrorMeansNoFile ==
    /\ (out # <<>> /\ out.ret = "Err") => out.file = {}
    /\ (out # <<>> /\ out.ret = "Ok") => \A w \in DOMAIN db_pc : db_pc[w] # "err"

\* C15: in generate_database, for every number of workers from 0 on, the
\* database files are written only after every worker has ended; when
\* generate_database returns Ok, every position that was queued has been
\* solved and has its value under its fingerprint in the lower-bound
\* early-game map; and when a worker returns an error, generate_database
\* returns the error and writes no file.
DatabaseWrittenAfterAllSolved ==
    WrittenAfterWorkersEnded /\ OkMeansAllSolved /\ ErrorMeansNoFile

(***************************************************************************)
(* state.rs: generate_states, called on the positions of the games with    *)
(* the depths up to MaxDepth.                                              *)
(***************************************************************************)
MaxDepth == 3

InitStates ==
    /\ SearchIdle /\ PlayIdle /\ PutIdle /\ DbIdle
    /\ \E l \in DOMAIN Lines : \E n \in 0 .. Len(Lines[l]) : arg = PositionAfter(l, n)
    /\ calls = 0
    /\ out = [states |-> generate_states(arg, 0)]

\* generate_states with the next depth
StatesCall ==
    /\ calls < MaxDepth
    /\ calls' = calls + 1
    /\ out' = [states |-> generate_states(arg, calls + 1)]
    /\ UNCHANGED arg
    /\ UNCHANGED <<searchVars, playVars, putVars, dbVars>>

NextStates == StatesCall

SpecStates == InitStates /\ [][NextStates]_vars

\* the player who moved last has four in a line
Won(s) == HasLine(s.opp_pieces)

\* the positions of a level and those within d plies below it, on
\* sequences of moves that do not go on from a won position
RECURSIVE WithinPlies(_, _)
WithinPlies(level, d) ==
    IF d = 0 \/ level = {} THEN level
    ELSE level \cup WithinPlies(UNION {{Child(t, mv) : mv \in Moves(t)} :
                                           t \in {u \in level : ~Won(u)}}, d - 1)

\* C16: generate_states(d) on a position S returns exactly the canonical
\* fingerprints of S and of the positions reachable from S within d plies
\* on sequences of moves that do not go on from a won position: none is
\* missing, none lies more than d plies below S or below a won position.
GenerateStatesIsReachableSet ==
    out.states = {to_bitboard(s) : s \in WithinPlies({arg}, calls)}

\* depth MaxDepth from a position with a won position among its children:
\* the won position is in the set and a position one ply below it is not;
\* and a position of the set three plies down is reached by two orders of
\* the same moves, so the second visit finds its fingerprint recorded
GenerateStatesIsReachableSet_Witness ==
    /\ calls = MaxDepth
    /\ ~Won(arg)
    /\ \E mv \in Moves(arg) :
          /\ Won(Child(arg, mv))
          /\ to_bitboard(Child(arg, mv)) \in out.states
          /\ \E reply \in Moves(Child(arg, mv)) :
                to_bitboard(Child(Child(arg, mv), reply)) \notin out.states
    /\ \E m1 \in Moves(arg) : \E m2 \in Moves(arg) \ {m1} : \E m3 \in Moves(arg) \ {m1, m2} :
          /\ ~Won(Child(arg, m1)) /\ ~Won(Child(Child(arg, m1), m2))
          /\ ~Won(Child(arg, m3)) /\ ~Won(Child(Child(arg, m3), m2))
          /\ Child(Child(Child(arg, m1), m2), m3) = Child(Child(Child(arg, m3), m2), m1)
          /\ to_bitboard(Child(Child(Child(arg, m1), m2), m3)) \in out.states

(***************************************************************************)
(* threats.rs: sort_by_threats, called on the threat words whose seven     *)
(* counts are drawn from ThreatCounts.                                     *)
(***************************************************************************)
ThreatCounts == {0, 1, 2, 15}

\* the word with the count counts[col + 1] in the field of column col
RECURSIVE PackCounts(_, _)
PackCounts(counts, col) ==
    IF col = COLS THEN 0
    ELSE U32Shl(counts[col + 1], index(col)) + PackCounts(counts, col + 1)

InitSort ==
    /\ SearchIdle /\ PlayIdle /\ PutIdle /\ DbIdle
    /\ \E counts \in [1 .. COLS -> ThreatCounts] : arg = PackCounts(counts, 0)
    /\ out = <<>>
    /\ calls = 0

SortCall ==
    /\ out = <<>>
    /\ out' = [move_order |-> sort_by_threats(arg)]
    /\ UNCHANGED <<arg, calls>>
    /\ UNCHANGED <<searchVars, playVars, putVars, dbVars>>

NextSort == SortCall

SpecSort == InitSort /\ [][NextSort]_vars

\* the count of a column in a threat word, and the column at a place of a
\* packed order
CountOf(word, col) == (word \div (16 ^ col)) % 16
ColumnAt(order, place) == (order \div (16 ^ place)) % 16

\* the default order of the columns, and the place of a column in it
DefaultOrder == <<3, 2, 4, 5, 1, 6, 0>>
DefaultPlace(col) == CHOOSE p \in 1 .. COLS : DefaultOrder[p] = col

\* C17: for every 28-bit threat word, sort_by_threats returns a packed
\* permutation of the columns 0..6 in which the counts do not increase,
\* and columns of equal count keep the default order 3,2,4,5,1,6,0; when
\* all counts are equal it returns the default order.
SortIsStableByThreats ==
    out # <<>> =>
        /\ out.move_order \in 0 .. ((16 ^ COLS) - 1)
        /\ {ColumnAt(out.move_order, p) : p \in 0 .. (COLS - 1)} = 0 .. (COLS - 1)
        /\ \A p \in 0 .. (COLS - 2) :
              CountOf(arg, ColumnAt(out.move_order, p))
                  >= CountOf(arg, ColumnAt(out.move_order, p + 1))
        /\ \A p \in 0 .. (COLS - 1) : \A q \in 0 .. (COLS - 1) :
              (/\ p < q
               /\ CountOf(arg, ColumnAt(out.move_order, p))
                     = CountOf(arg, ColumnAt(out.move_order, q)))
                  => DefaultPlace(ColumnAt(out.move_order, p))
                       < DefaultPlace(ColumnAt(out.move_order, q))
        /\ (\A col \in 0 .. (COLS - 1) : CountOf(arg, col) = CountOf(arg, 0))
              => \A p \in 0 .. (COLS - 1) : ColumnAt(out.move_order, p) = DefaultOrder[p + 1]

\* a word sorted in which column 0, last by default, has the largest count
\* alone and comes first, and columns 3 and 2 have equal counts
SortIsStableByThreats_Witness ==
    /\ out # <<>>
    /\ ColumnAt(out.move_order, 0) = 0
    /\ CountOf(arg, 0) = 15
    /\ \A col \in 1 .. (COLS - 1) : CountOf(arg, col) < 15
    /\ CountOf(arg, 3) = CountOf(arg, 2)
    /\ CountOf(arg, 4) > CountOf(arg, 3)

(***************************************************************************)
(* threats.rs and engine.rs 352: what count_threats returns and what the   *)
(* enumeration pass of evaluate_position keeps of it in its threat word.   *)
(***************************************************************************)
\* the cell completes four in a line with cells of pieces
CompletesLine(pieces, col, row) ==
    \E d \in LineDirections : \E o \in 0 .. 3 :
        \A k \in 0 .. 3 :
            /\ OnBoard(col + ((k - o) * d[1]), row + ((k - o) * d[2]))
            /\ k # o => Cell(col + ((k - o) * d[1]), row + ((k - o) * d[2])) \in pieces

\* the cells of a column from its open cell upward, below the sentinel,
\* that complete four in a line for pieces
ColumnThreats(pieces, height_map, col) ==
    {row \in 0 .. (ROWS - 1) :
        /\ \E open \in 0 .. row : Cell(col, open) \in height_map
        /\ CompletesLine(pieces, col, row)}

\* their number over all columns
RECURSIVE TotalThreats(_, _, _)
TotalThreats(pieces, height_map, col) ==
    IF col = COLS THEN 0
    ELSE Cardinality(ColumnThreats(pieces, height_map, col))
            + TotalThreats(pieces, height_map, col + 1)

\* the total for the position after the j-th move of the enumeration pass
\* of the call f
TotalAfter(f, j) ==
    TotalThreats(f.curr_pieces \cup f.moves[j].next_move,
                 U64Add(f.height_map, f.moves[j].next_move), 0)

\* the call on top of the stack is in its enumeration pass
InEnumeration ==
    /\ dpc = "steps"
    /\ main.stack # <<>>
    /\ Top(main).pc = "enum"

====
